---- MODULE Spec2Model ----
\* Verification model of the nexus-miracle voice pipeline core:
\*   - app/utils/circuit_breaker.py   (CircuitBreaker)
\*   - app/services/audio_sequencer.py (AudioSequencer on asyncio.PriorityQueue)
EXTENDS Integers, Sequences, FiniteSets, TLC

\* ------------------------------------------------------------------ bounds
MaxTasks == 4            \* coroutines that may be suspended in call()'s await at once
MaxCalls == 9            \* call() invocations explored in one behaviour
MaxTime == 4             \* clock readings explored (time.time(), in ticks)
RecoveryTimeout == 2     \* config.recovery_timeout, in ticks

\* ------------------------------------------------------- program constants
FailureThreshold == 3    \* config.failure_threshold
HalfOpenMaxCalls == 3    \* config.half_open_max_calls

CLOSED == "closed"
OPEN == "open"
HALF_OPEN == "half_open"

\* The breaker instances modelled: the pre-configured "llm" breaker, whose
\* fallback_messages has an entry under its own name, and the "test_service"
\* breaker of the tests, which runs on the default CircuitBreakerConfig.
Names == {"llm", "test_service"}

VARIABLES
    name,       \* CircuitBreaker.name
    breaker,    \* the CircuitBreaker's private fields
    now,        \* the value time.time() returns
    inflight,   \* calls suspended in `await func(...)`: [probe] admitted in the
                \* current HALF_OPEN episode, [normal] admitted before it
    ncalls,     \* call() invocations so far
    ev,         \* what the last operation did (its return value or exception)
    opened_at,  \* history: clock reading when _state last became OPEN
    run,        \* history: failures recorded in a row (no success, no reset between)
    admitted,   \* history: calls admitted to func in the current HALF_OPEN episode
    hsucc,      \* history: successes recorded in the current HALF_OPEN episode
    reopened_at \* history: clock reading of the last HALF_OPEN failure, -1 when none stands

cbvars == <<name, breaker, now, inflight, ncalls, ev, opened_at, run, admitted, hsucc, reopened_at>>

\* ---------------------------------------------------------- CircuitBreaker

\* CircuitBreakerConfig.fallback_messages of the instance called n.
fallback_messages(n) ==
    IF n = "llm"
    THEN [llm |-> "llm_busy", default |-> "llm_busy"]
    ELSE [asr |-> "asr_repeat", llm |-> "llm_busy", tts |-> "tts_problem",
          default |-> "default_error"]

\* CircuitBreaker.get_fallback_message: dict.get(service_type, messages["default"]).
get_fallback_message(n, service_type) ==
    IF service_type \in DOMAIN fallback_messages(n)
    THEN fallback_messages(n)[service_type]
    ELSE fallback_messages(n)["default"]

\* CircuitBreaker.__init__
NewBreaker ==
    [_state |-> CLOSED, _failure_count |-> 0, _success_count |-> 0,
     _last_failure_time |-> 0, _half_open_calls |-> 0]

state_no_timeout(b, t) ==
    IF b._state = OPEN
    THEN [b EXCEPT !._state = HALF_OPEN, !._half_open_calls = 0]
    ELSE b

\* The `state` property: the fields after it has been read at clock reading t
\* (an OPEN breaker whose timeout has passed becomes HALF_OPEN on the read).
state(b, t) ==
    IF b._state = OPEN /\ t - b._last_failure_time >= RecoveryTimeout
    THEN [b EXCEPT !._state = HALF_OPEN, !._half_open_calls = 0]
    ELSE b

\* The `is_available` property, as a value (the read goes through `state`).
is_available(b, t) == state(b, t)._state # OPEN

record_success_keeps_count_when_closed(b) ==
    IF b._state = HALF_OPEN
    THEN IF b._success_count + 1 >= HalfOpenMaxCalls
         THEN [b EXCEPT !._state = CLOSED, !._failure_count = 0, !._success_count = 0]
         ELSE [b EXCEPT !._success_count = @ + 1]
    ELSE b

record_success_keeps_count_on_recovery(b) ==
    IF b._state = HALF_OPEN
    THEN IF b._success_count + 1 >= HalfOpenMaxCalls
         THEN [b EXCEPT !._state = CLOSED, !._success_count = 0]
         ELSE [b EXCEPT !._success_count = @ + 1]
    ELSE IF b._state = CLOSED
         THEN [b EXCEPT !._failure_count = 0]
         ELSE b

\* CircuitBreaker.record_success
record_success(b) ==
    IF b._state = HALF_OPEN
    THEN IF b._success_count + 1 >= HalfOpenMaxCalls
         THEN [b EXCEPT !._state = CLOSED, !._failure_count = 0, !._success_count = 0]
         ELSE [b EXCEPT !._success_count = @ + 1]
    ELSE IF b._state = CLOSED
         THEN [b EXCEPT !._failure_count = 0]
         ELSE b

record_failure_strict_threshold(b, t) ==
    LET c == [b EXCEPT !._failure_count = @ + 1, !._last_failure_time = t]
    IN  IF c._state = HALF_OPEN
        THEN [c EXCEPT !._state = OPEN, !._success_count = 0]
        ELSE IF c._failure_count > FailureThreshold
             THEN [c EXCEPT !._state = OPEN]
             ELSE c

record_failure_keeps_timer(b, t) ==
    LET c == [b EXCEPT !._failure_count = @ + 1]
    IN  IF c._state = HALF_OPEN
        THEN [c EXCEPT !._state = OPEN, !._success_count = 0]
        ELSE IF c._failure_count >= FailureThreshold
             THEN [c EXCEPT !._state = OPEN, !._last_failure_time = t]
             ELSE [c EXCEPT !._last_failure_time = t]

\* CircuitBreaker.record_failure at clock reading t
record_failure(b, t) ==
    LET c == [b EXCEPT !._failure_count = @ + 1, !._last_failure_time = t]
    IN  IF c._state = HALF_OPEN
        THEN [c EXCEPT !._state = OPEN, !._success_count = 0]
        ELSE IF c._failure_count >= FailureThreshold
             THEN [c EXCEPT !._state = OPEN]
             ELSE c

\* CircuitBreaker.reset
reset(b) ==
    [b EXCEPT !._state = CLOSED, !._failure_count = 0, !._success_count = 0,
              !._half_open_calls = 0]

admit_one_too_many(b, t) ==
    LET s == state(b, t)
    IN  IF s._state = OPEN
        THEN [b |-> s, admit |-> FALSE]
        ELSE IF s._state = HALF_OPEN
             THEN LET h == [s EXCEPT !._half_open_calls = @ + 1]
                  IN  [b |-> h, admit |-> h._half_open_calls <= HalfOpenMaxCalls + 1]
             ELSE [b |-> s, admit |-> TRUE]

admit_unlimited(b, t) ==
    LET s == state(b, t)
    IN  IF s._state = OPEN
        THEN [b |-> s, admit |-> FALSE]
        ELSE IF s._state = HALF_OPEN
             THEN [b |-> [s EXCEPT !._half_open_calls = @ + 1], admit |-> TRUE]
             ELSE [b |-> s, admit |-> TRUE]

\* CircuitBreaker.call up to its `await func(...)`: the fields afterwards, and
\* whether func is invoked (admit) or CircuitBreakerOpen is raised.
admit(b, t) ==
    LET s == state(b, t)
    IN  IF s._state = OPEN
        THEN [b |-> s, admit |-> FALSE]
        ELSE IF s._state = HALF_OPEN
             THEN LET h == [s EXCEPT !._half_open_calls = @ + 1]
                  IN  [b |-> h, admit |-> h._half_open_calls <= HalfOpenMaxCalls]
             ELSE [b |-> s, admit |-> TRUE]

\* The CircuitBreakerOpen exception call() raises: CircuitBreakerOpen(self.name,
\* self.get_fallback_message(self.name)).
CircuitBreakerOpen(n) ==
    [kind |-> "CircuitBreakerOpen", value |-> "",
     service_name |-> n, fallback_message |-> get_fallback_message(n, n)]

\* What any other operation hands back to its caller.
Ev(kind, value) ==
    [kind |-> kind, value |-> value, service_name |-> "", fallback_message |-> ""]

\* History bookkeeping shared by the actions: o and n are the breaker's fields
\* before and after the step, adm is 1 when the step invokes func, suc is 1 when
\* it records a success.
Track(o, n, adm, suc) ==
    /\ opened_at' = IF o._state # OPEN /\ n._state = OPEN THEN now ELSE opened_at
    /\ admitted' = IF n._state # HALF_OPEN THEN 0
                   ELSE IF o._state # HALF_OPEN THEN adm ELSE admitted + adm
    /\ hsucc' = IF n._state # HALF_OPEN \/ o._state # HALF_OPEN THEN 0 ELSE hsucc + suc

\* In-flight calls once the breaker's fields are n: probes of an episode that
\* has ended are ordinary in-flight calls from then on.
Settle(f, n) ==
    IF n._state = HALF_OPEN THEN f
    ELSE [normal |-> f.normal + f.probe, probe |-> 0]

CbInit ==
    /\ name \in Names
    /\ breaker = NewBreaker
    /\ now = 0
    /\ inflight = [normal |-> 0, probe |-> 0]
    /\ ncalls = 0
    /\ ev = Ev("none", "")
    /\ opened_at = 0
    /\ run = 0
    /\ admitted = 0
    /\ hsucc = 0
    /\ reopened_at = -1

\* call(): from entry to the `await func(...)` (func is invoked) or to the
\* raise of CircuitBreakerOpen. No suspension point lies in between.
CallEnter ==
    /\ ncalls < MaxCalls
    /\ inflight.normal + inflight.probe < MaxTasks
    /\ LET r == admit(breaker, now)
           f == Settle(inflight, r.b)
       IN  /\ breaker' = r.b
           /\ ncalls' = ncalls + 1
           /\ IF r.admit
              THEN /\ inflight' = IF r.b._state = HALF_OPEN
                                  THEN [f EXCEPT !.probe = @ + 1]
                                  ELSE [f EXCEPT !.normal = @ + 1]
                   /\ ev' = Ev("invoked", "")
              ELSE /\ inflight' = f
                   /\ ev' = CircuitBreakerOpen(name)
           /\ Track(breaker, r.b, IF r.admit THEN 1 ELSE 0, 0)
    /\ UNCHANGED <<name, now, run, reopened_at>>

\* One suspended call leaves the in-flight set; p says whether it is a probe.
Leave(p, n) ==
    /\ IF p THEN inflight.probe > 0 ELSE inflight.normal > 0
    /\ inflight' = Settle(IF p THEN [inflight EXCEPT !.probe = @ - 1]
                               ELSE [inflight EXCEPT !.normal = @ - 1], n)

\* call(): func returned; record_success(), return result.
CallReturn ==
    \E p \in BOOLEAN :
        LET n == record_success(breaker)
        IN  /\ Leave(p, n)
            /\ breaker' = n
            /\ ev' = Ev("returned", "func_result")
            /\ run' = 0
            /\ Track(breaker, n, 0, 1)
            /\ UNCHANGED <<name, now, ncalls, reopened_at>>

\* call(): func raised an Exception; record_failure(e), re-raise.
CallRaise ==
    \E p \in BOOLEAN :
        LET n == record_failure(breaker, now)
        IN  /\ Leave(p, n)
            /\ breaker' = n
            /\ ev' = Ev("raised", "func_error")
            /\ run' = run + 1
            /\ reopened_at' = IF breaker._state = HALF_OPEN THEN now ELSE reopened_at
            /\ Track(breaker, n, 0, 0)
            /\ UNCHANGED <<name, now, ncalls>>

\* call(): the awaiting task is cancelled. asyncio.CancelledError is not an
\* Exception, so neither record_success nor record_failure runs.
CallCancel ==
    \E p \in BOOLEAN :
        /\ Leave(p, breaker)
        /\ ev' = Ev("cancelled", "")
        /\ UNCHANGED <<name, breaker, now, ncalls, opened_at, run, admitted, hsucc,
                       reopened_at>>

\* A read of the `state` property (is_available, get_stats, a caller's check).
ReadState ==
    LET n == state(breaker, now)
    IN  /\ breaker' = n
        /\ inflight' = Settle(inflight, n)
        /\ ev' = Ev("state", n._state)
        /\ Track(breaker, n, 0, 0)
        /\ UNCHANGED <<name, now, ncalls, run, reopened_at>>

\* CircuitBreaker.reset()
Reset ==
    LET n == reset(breaker)
    IN  /\ breaker' = n
        /\ inflight' = Settle(inflight, n)
        /\ ev' = Ev("reset", "")
        /\ run' = 0
        /\ reopened_at' = -1
        /\ Track(breaker, n, 0, 0)
        /\ UNCHANGED <<name, now, ncalls>>

\* The clock advances.
Tick ==
    /\ now < MaxTime
    /\ now' = now + 1
    /\ UNCHANGED <<name, breaker, inflight, ncalls, ev, opened_at, run, admitted,
                   hsucc, reopened_at>>

\* ----------------------------------------------------------- AudioSequencer

MaxSegments == 3         \* add_segment calls explored in one behaviour

SampleRate == 16000
BytesPerSample == 2
ChunkDurationMs == 20

\* AudioSequencer.__init__: int(sample_rate * bytes_per_sample * chunk_ms / 1000)
_bytes_per_chunk == (SampleRate * BytesPerSample * ChunkDurationMs) \div 1000

\* SegmentPriority
LOW == 0
NORMAL == 1
HIGH == 2
CRITICAL == 3
SegmentPriority == {LOW, NORMAL, HIGH, CRITICAL}

\* len(audio) of the segments handed to add_segment: no audio at all, or one
\* full chunk followed by a shorter one.
AudioLens == {0, _bytes_per_chunk + 360}

\* The coroutines running play_sequence on the session's sequencer.
Players == {1}

\* `None` for _current_segment.
None == [segment_id |-> -1, priority |-> NORMAL, audio |-> 0]

VARIABLES
    seq,        \* the AudioSequencer's fields
    player,     \* per play_sequence coroutine: its suspension point and locals
    played      \* history: the segments taken by `await self._queue.get()`, in
                \* order, each with the highest priority left waiting at that time

seqvars == <<seq, player, played>>

lt_lower_first(a, b) == a.priority < b.priority

\* AudioSegment.__lt__: higher priority sorts first.
lt(a, b) == a.priority > b.priority

\* heapq._siftdown(heap, startpos, pos) with newitem already lifted out:
\* positions are 0-based as in the library, heap[i] is h[i + 1].
RECURSIVE _siftdown(_, _, _, _)
_siftdown(h, startpos, pos, newitem) ==
    IF pos > startpos
    THEN LET parentpos == (pos - 1) \div 2
             parent == h[parentpos + 1]
         IN  IF lt(newitem, parent)
             THEN _siftdown([h EXCEPT ![pos + 1] = parent], startpos, parentpos, newitem)
             ELSE [h EXCEPT ![pos + 1] = newitem]
    ELSE [h EXCEPT ![pos + 1] = newitem]

\* heapq.heappush, which PriorityQueue._put calls.
heappush(h, item) ==
    LET a == Append(h, item)
    IN  _siftdown(a, 0, Len(a) - 1, item)

\* The loop of heapq._siftup: the smaller child is moved up until a leaf is hit;
\* returns the heap and the leaf position reached.
RECURSIVE _siftup_loop(_, _)
_siftup_loop(h, pos) ==
    LET endpos == Len(h)
        childpos == 2 * pos + 1
        rightpos == childpos + 1
        c == IF rightpos < endpos /\ ~lt(h[childpos + 1], h[rightpos + 1])
             THEN rightpos ELSE childpos
    IN  IF childpos < endpos
        THEN _siftup_loop([h EXCEPT ![pos + 1] = h[c + 1]], c)
        ELSE [heap |-> h, pos |-> pos]

\* heapq._siftup(heap, pos)
_siftup(h, pos) ==
    LET newitem == h[pos + 1]
        r == _siftup_loop(h, pos)
    IN  _siftdown(r.heap, pos, r.pos, newitem)

\* heapq.heappop, which PriorityQueue._get calls: the item and the heap left.
heappop(h) ==
    LET lastelt == h[Len(h)]
        rest == SubSeq(h, 1, Len(h) - 1)
    IN  IF rest # <<>>
        THEN [item |-> h[1], heap |-> _siftup([rest EXCEPT ![1] = lastelt], 0)]
        ELSE [item |-> lastelt, heap |-> rest]

\* AudioSequencer.__init__
NewSequencer ==
    [_queue |-> <<>>, _is_playing |-> FALSE, _should_stop |-> FALSE,
     _is_paused |-> FALSE, _current_segment |-> None, _current_position |-> 0,
     _total_segments |-> 0]

\* A play_sequence coroutine that is not running.
IdlePlayer == [pc |-> "idle", audio |-> None, chunk_end |-> 0]

\* The highest priority among the segments of queue q, -1 when q is empty.
MaxWaiting(q) ==
    IF q = <<>> THEN -1
    ELSE CHOOSE m \in {q[i].priority : i \in 1..Len(q)} :
            \A i \in 1..Len(q) : q[i].priority <= m

SeqInit ==
    /\ seq = NewSequencer
    /\ player = [p \in Players |-> IdlePlayer]
    /\ played = <<>>

\* add_segment(audio, speaker, priority, text): put() on the unbounded queue
\* never suspends.
add_segment(s, audio, priority) ==
    LET segment == [segment_id |-> s._total_segments, priority |-> priority,
                    audio |-> audio]
    IN  [s EXCEPT !._queue = heappush(@, segment), !._total_segments = @ + 1]

AddSegment ==
    /\ seq._total_segments < MaxSegments
    /\ \E audio \in AudioLens, priority \in SegmentPriority :
          seq' = add_segment(seq, audio, priority)
    /\ UNCHANGED <<player, played>>

\* A variant that does not clamp the chunk to the end of the audio.
chunk_end_unclamped(position, len) == position + _bytes_per_chunk

\* chunk_end = min(self._current_position + self._bytes_per_chunk, len(audio))
chunk_end(position, len) ==
    IF position + _bytes_per_chunk < len THEN position + _bytes_per_chunk ELSE len

\* play_sequence from the test of its outer `while` (outer = TRUE) or of its
\* inner `while` (outer = FALSE) to its next suspension point or its return.
\* r is [s: the sequencer's fields, l: the coroutine's locals and suspension
\* point, h: the history of segments taken].
RECURSIVE play_run(_, _)
play_run(r, outer) ==
    IF outer
    THEN IF r.s._queue # <<>> /\ ~r.s._should_stop
         THEN LET g == heappop(r.s._queue)
              IN  play_run([s |-> [r.s EXCEPT !._queue = g.heap,
                                              !._current_segment = g.item,
                                              !._current_position = 0],
                            l |-> [r.l EXCEPT !.audio = g.item],
                            h |-> Append(r.h, [segment_id |-> g.item.segment_id,
                                               priority |-> g.item.priority,
                                               waiting |-> MaxWaiting(g.heap)])],
                           FALSE)
         ELSE \* finally: _is_playing = False, _current_segment = None
              [r EXCEPT !.s._is_playing = FALSE, !.s._current_segment = None,
                        !.l = IdlePlayer]
    ELSE IF r.s._current_position < r.l.audio.audio /\ ~r.s._should_stop
         THEN IF r.s._is_paused
              THEN [r EXCEPT !.l.pc = "paused"]
              ELSE [r EXCEPT !.l.pc = "sending",
                             !.l.chunk_end = chunk_end(r.s._current_position,
                                                       r.l.audio.audio)]
         ELSE play_run([r EXCEPT !.s._current_segment = None], TRUE)

\* Writes a play_run result back to the state.
Continue(p, r) ==
    /\ seq' = r.s
    /\ player' = [player EXCEPT ![p] = r.l]
    /\ played' = r.h

\* play_sequence(output_callback) from its call to its first suspension point
\* or its return.
play_sequence(s, l, h) ==
    play_run([s |-> [s EXCEPT !._is_playing = TRUE, !._should_stop = FALSE],
              l |-> l, h |-> h], TRUE)

PlayStart(p) ==
    /\ player[p].pc = "idle"
    /\ Continue(p, play_sequence(seq, player[p], played))

\* `await asyncio.sleep(0.01)` of the pause loop returns: the pause loop's test,
\* then `if self._should_stop: break`, else the next chunk.
PlayWake(p) ==
    /\ player[p].pc = "paused"
    /\ IF seq._is_paused /\ ~seq._should_stop
       THEN UNCHANGED <<seq, player, played>>
       ELSE IF seq._should_stop
            THEN Continue(p, play_run([s |-> [seq EXCEPT !._current_segment = None],
                                     l |-> player[p], h |-> played], TRUE))
            ELSE /\ player' = [player EXCEPT ![p].pc = "sending",
                        ![p].chunk_end = chunk_end(seq._current_position,
                                                   player[p].audio.audio)]
                 /\ UNCHANGED <<seq, played>>

\* `await output_callback(chunk)` returns: the cursor moves to chunk_end, then
\* the coroutine sleeps for the chunk duration.
PlaySent(p) ==
    /\ player[p].pc = "sending"
    /\ seq' = [seq EXCEPT !._current_position = player[p].chunk_end]
    /\ player' = [player EXCEPT ![p].pc = "sleeping"]
    /\ UNCHANGED played

\* `await asyncio.sleep(chunk_duration)` returns: back to the inner loop's test.
PlaySlept(p) ==
    /\ player[p].pc = "sleeping"
    /\ Continue(p, play_run([s |-> seq, l |-> player[p], h |-> played], FALSE))

\* AudioSequencer.stop()
stop(s) == [s EXCEPT !._should_stop = TRUE, !._queue = <<>>]

Stop ==
    /\ seq' = stop(seq)
    /\ UNCHANGED <<player, played>>

\* AudioSequencer.pause() and resume()
Pause ==
    /\ seq' = [seq EXCEPT !._is_paused = TRUE]
    /\ UNCHANGED <<player, played>>

ResumePlayback ==
    /\ seq' = [seq EXCEPT !._is_paused = FALSE]
    /\ UNCHANGED <<player, played>>

\* AudioSequencer.reset()
reset_sequencer(s) ==
    [s EXCEPT !._should_stop = FALSE, !._is_paused = FALSE,
              !._current_segment = None, !._current_position = 0, !._queue = <<>>]

ResetSequencer ==
    /\ seq' = reset_sequencer(seq)
    /\ UNCHANGED <<player, played>>

\* Observations of one session's playback.
VARIABLES
    stopped,    \* history: stop() has returned and play_sequence() has not been
                \* called since
    cancelled   \* history: ids of the segments that were being played when a
                \* barge-in was handled

obsvars == <<stopped, cancelled>>

ObsInit ==
    /\ stopped = FALSE
    /\ cancelled = {}

\* The ids of the segments the play_sequence coroutines hold in `audio`.
Playing == {player[p].audio.segment_id : p \in {q \in DOMAIN player : player[q].pc # "idle"}}

\* A play_sequence coroutine begins an output_callback invocation in this step.
BeginsOutput(p) == player[p].pc # "sending" /\ player'[p].pc = "sending"

\* Observations of what the sequencer was given and what it put out.
VARIABLES
    given,     \* history: len(audio) of the segments given to add_segment, in
                \* call order (segment seg_i is given[i + 1])
    delivered   \* history: the chunks passed to output_callback, in order, each
                \* as the slice audio[lo:hi] of its segment

playobs == <<given, delivered>>

PlayObsInit ==
    /\ given = <<>>
    /\ delivered = <<>>

\* add_segment was called in this step: its audio is noted.
Given ==
    LET segment == CHOOSE g \in {seq'._queue[i] : i \in 1..Len(seq'._queue)} :
                        g.segment_id = seq._total_segments
    IN  /\ given' = Append(given, segment.audio)
        /\ UNCHANGED delivered

\* The chunk of an output_callback invocation begun in this step is noted:
\* chunk = audio[self._current_position:chunk_end].
Delivered(p) ==
    /\ delivered' = IF BeginsOutput(p)
                    THEN Append(delivered,
                                [segment_id |-> player'[p].audio.segment_id,
                                 lo |-> seq'._current_position,
                                 hi |-> player'[p].chunk_end])
                    ELSE delivered
    /\ UNCHANGED given

\* play_sequence returns in this step, having taken a segment or suspended.
Returns(p) ==
    /\ player'[p].pc = "idle"
    /\ player[p].pc # "idle" \/ played' # played


\* --------------------------------------------------------------- VADService

MaxChunks == 7           \* chunks fed to process_chunk in one audio stream

VadSampleRate == 16000   \* VADService._sample_rate
MinSilenceMs == 500      \* settings.vad_min_silence_ms

\* VADEvent
SPEECH_START == "speech_start"
SPEECH_END == "speech_end"
SPEECH_CONTINUE == "speech_continue"
SILENCE == "silence"

\* len(audio_float) of the chunks fed in: 100 ms and 250 ms of audio.
ChunkSamples == {1600, 4000}

VARIABLES
    vad,        \* the VADService's tracking state
    chunks      \* history: the chunks of the current audio stream (since
                \* construction or the last reset()), each with the outcome of
                \* `speech_prob >= threshold`, its length and the event returned

vadvars == <<vad, chunks>>

\* VADService.__init__ (tracking state); _total_samples_processed and
\* _speech_start_sample are written but never read by process_chunk.
NewVad == [_is_speaking |-> FALSE, _silence_samples |-> 0, _speech_samples |-> 0]

\* VADService.reset
vad_reset(v) ==
    [v EXCEPT !._is_speaking = FALSE, !._silence_samples = 0, !._speech_samples = 0]

\* (samples / sample_rate) * 1000 >= min_silence_ms
silence_reached(samples) == samples * 1000 >= MinSilenceMs * VadSampleRate

process_chunk_end_keeps_speaking(v, is_speech, chunk_samples) ==
    IF is_speech
    THEN LET w == [v EXCEPT !._speech_samples = @ + chunk_samples,
                            !._silence_samples = 0]
         IN  IF ~v._is_speaking
             THEN [vad |-> [w EXCEPT !._is_speaking = TRUE], event |-> SPEECH_START]
             ELSE [vad |-> w, event |-> SPEECH_CONTINUE]
    ELSE LET w == [v EXCEPT !._silence_samples = @ + chunk_samples]
         IN  IF v._is_speaking
             THEN IF silence_reached(w._silence_samples)
                  THEN [vad |-> [w EXCEPT !._speech_samples = 0], event |-> SPEECH_END]
                  ELSE [vad |-> w, event |-> SPEECH_CONTINUE]
             ELSE [vad |-> w, event |-> SILENCE]

process_chunk_keeps_silence(v, is_speech, chunk_samples) ==
    IF is_speech
    THEN LET w == [v EXCEPT !._speech_samples = @ + chunk_samples]
         IN  IF ~v._is_speaking
             THEN [vad |-> [w EXCEPT !._is_speaking = TRUE], event |-> SPEECH_START]
             ELSE [vad |-> w, event |-> SPEECH_CONTINUE]
    ELSE LET w == [v EXCEPT !._silence_samples = @ + chunk_samples]
         IN  IF v._is_speaking
             THEN IF silence_reached(w._silence_samples)
                  THEN [vad |-> [w EXCEPT !._is_speaking = FALSE, !._speech_samples = 0],
                        event |-> SPEECH_END]
                  ELSE [vad |-> w, event |-> SPEECH_CONTINUE]
             ELSE [vad |-> w, event |-> SILENCE]

\* VADService.process_chunk from `is_speech = speech_prob >= self._threshold`
\* on: the tracking state afterwards and the event returned.
process_chunk(v, is_speech, chunk_samples) ==
    IF is_speech
    THEN LET w == [v EXCEPT !._speech_samples = @ + chunk_samples,
                            !._silence_samples = 0]
         IN  IF ~v._is_speaking
             THEN [vad |-> [w EXCEPT !._is_speaking = TRUE], event |-> SPEECH_START]
             ELSE [vad |-> w, event |-> SPEECH_CONTINUE]
    ELSE LET w == [v EXCEPT !._silence_samples = @ + chunk_samples]
         IN  IF v._is_speaking
             THEN IF silence_reached(w._silence_samples)
                  THEN [vad |-> [w EXCEPT !._is_speaking = FALSE, !._speech_samples = 0],
                        event |-> SPEECH_END]
                  ELSE [vad |-> w, event |-> SPEECH_CONTINUE]
             ELSE [vad |-> w, event |-> SILENCE]

VadInit ==
    /\ vad = NewVad
    /\ chunks = <<>>

ProcessChunk ==
    /\ Len(chunks) < MaxChunks
    /\ \E is_speech \in BOOLEAN, chunk_samples \in ChunkSamples :
          LET r == process_chunk(vad, is_speech, chunk_samples)
          IN  /\ vad' = r.vad
              /\ chunks' = Append(chunks, [is_speech |-> is_speech,
                                           chunk_samples |-> chunk_samples,
                                           event |-> r.event])

\* reset(): "Reset VAD state for new audio stream".
VadReset ==
    /\ vad' = vad_reset(vad)
    /\ chunks' = <<>>

\* ----------------------------------------------------------- PipelineService

MaxTurnCalls == 2        \* process_turn invocations explored in one behaviour

\* The coroutines running process_turn for the session; each one is also the
\* play_sequence coroutine of its step 8.
Turns == {1, 2}

\* transcript.text, as a sequence of characters.
Whitespace == {" "}
Texts == {<<>>, <<" ", " ">>, <<" ", "a", " ">>}

\* len(audio) of a cached filler: 0 stands for `None` (no keyword match, or no
\* pre-synthesized audio for the phrase).
FillerLens == {0, _bytes_per_chunk}

\* len(audio) returned by TTSService.synthesize: one chunk of audio.
TtsLens == {_bytes_per_chunk}

\* The speakers of the segments LLMService._parse_response returns.
Responses == {<<"sara">>, <<"sara", "nexus">>}

\* The fallback generate_response returns when generation failed.
Fallback == <<"sara">>

VARIABLES
    session,    \* the CallSession: conversation_history (roles) and flags
    turn,       \* per process_turn coroutine: suspension point and locals
    greeting,   \* generate_greeting: "idle", or "tts" while it awaits synthesize
    nturns      \* history: the number of process_turn calls so far

pipevars == <<session, turn, greeting, nturns>>

\* str.strip()
RECURSIVE lstrip(_)
lstrip(text) ==
    IF text # <<>> /\ Head(text) \in Whitespace THEN lstrip(Tail(text)) ELSE text

RECURSIVE rstrip(_)
rstrip(text) ==
    IF text # <<>> /\ text[Len(text)] \in Whitespace
    THEN rstrip(SubSeq(text, 1, Len(text) - 1)) ELSE text

strip_keeps_whitespace(text) == text

strip(text) == rstrip(lstrip(text))

\* CallSession(...)
NewSession ==
    [conversation_history |-> <<>>, is_speaking |-> FALSE, is_processing |-> FALSE,
     greeting_sent |-> FALSE]

\* CallSession.add_message; the history is modelled by its roles.
add_message(sess, role) ==
    [sess EXCEPT !.conversation_history = Append(@, role)]

on_error_records_user(sess) ==
    [add_message(sess, "user") EXCEPT !.is_processing = FALSE]

\* process_turn's `except Exception` and `finally`: the error goes into the
\* metrics and the turn is released.
on_error(sess) == [sess EXCEPT !.is_processing = FALSE]

\* A process_turn coroutine that is not running. `filler` is its delayed
\* filler task: none, sleeping, done or cancelled; `outcome` tells how its last
\* run returned: none, empty, error or ok.
IdleTurn ==
    [pc |-> "idle", segments |-> <<>>, filler |-> "none", llm_failed |-> FALSE,
     outcome |-> "none"]

PipeInit ==
    /\ session = NewSession
    /\ turn = [t \in Turns |-> IdleTurn]
    /\ greeting = "idle"
    /\ nturns = 0

\* process_turn returns: `finally` releases the turn.
Return(t, outcome, sess) ==
    /\ session' = [sess EXCEPT !.is_processing = FALSE]
    /\ turn' = [turn EXCEPT ![t].pc = "idle", ![t].segments = <<>>,
                            ![t].outcome = outcome]

\* process_turn is called: up to `await self._asr.transcribe(audio_buffer)`.
\* A free coroutine is one that has returned and whose filler task is over.
TurnStart(t) ==
    /\ nturns < MaxTurnCalls
    /\ turn[t].pc = "idle" /\ turn[t].filler # "sleeping"
    /\ \A u \in Turns : u < t => turn[u].pc # "idle"
    /\ session' = [session EXCEPT !.is_processing = TRUE]
    /\ turn' = [turn EXCEPT ![t] = [IdleTurn EXCEPT !.pc = "asr"]]
    /\ nturns' = nturns + 1
    /\ UNCHANGED <<greeting, seq, player, played>>

\* transcribe returns: empty text ends the turn; otherwise the user message,
\* the empathy filler, the delayed-filler task and the call of generate_response.
AsrReturn(t, text) ==
    /\ turn[t].pc = "asr"
    /\ IF strip(text) = <<>>
       THEN /\ Return(t, "empty", session)
            /\ UNCHANGED seq
       ELSE /\ session' = add_message(session, "user")
            /\ \E audio \in FillerLens :
                  seq' = IF audio > 0 THEN add_segment(seq, audio, HIGH) ELSE seq
            /\ turn' = [turn EXCEPT ![t].pc = "llm", ![t].filler = "sleeping"]
    /\ UNCHANGED <<greeting, nturns, player, played>>

\* transcribe raises TranscriptionError (or ASRException from initialize).
AsrRaise(t) ==
    /\ turn[t].pc = "asr"
    /\ Return(t, "error", on_error(session))
    /\ UNCHANGED <<greeting, nturns, seq, player, played>>

\* _delayed_filler: its sleep ends before it is cancelled.
FillerSlept(t) ==
    /\ turn[t].filler = "sleeping"
    /\ \E audio \in FillerLens :
          seq' = IF audio > 0 THEN add_segment(seq, audio, LOW) ELSE seq
    /\ turn' = [turn EXCEPT ![t].filler = "done"]
    /\ UNCHANGED <<session, greeting, nturns, player, played>>

\* generate_response returns segments (the fallback segment when generation
\* failed): the filler task is cancelled and awaited, then the first
\* synthesize call is made.
LlmReturn(t, segments, failed) ==
    /\ turn[t].pc = "llm"
    /\ failed => segments = Fallback
    /\ turn' = [turn EXCEPT ![t].pc = "tts", ![t].segments = segments,
                            ![t].llm_failed = failed,
                            ![t].filler = IF @ = "sleeping" THEN "cancelled" ELSE @]
    /\ UNCHANGED <<session, greeting, nturns, seq, player, played>>

\* generate_response raises: LLMService.initialize failed, outside its `try`.
\* The filler task is not cancelled on this path.
LlmRaise(t) ==
    /\ turn[t].pc = "llm"
    /\ session' = on_error(session)
    /\ turn' = [turn EXCEPT ![t].pc = "idle", ![t].segments = <<>>,
                            ![t].llm_failed = TRUE, ![t].outcome = "error"]
    /\ UNCHANGED <<greeting, nturns, seq, player, played>>

\* synthesize returns: add_segment, add_message, then the next synthesize call
\* or, after the last segment, play_sequence up to its first suspension.
TtsReturn(t, audio) ==
    /\ turn[t].pc = "tts"
    /\ LET queued == add_segment(seq, audio, NORMAL)
           sess == add_message(session, Head(turn[t].segments))
           rest == Tail(turn[t].segments)
           r == play_sequence(queued, player[t], played)
       IN  IF rest # <<>>
           THEN /\ seq' = queued
                /\ session' = sess
                /\ turn' = [turn EXCEPT ![t].segments = rest]
                /\ UNCHANGED <<player, played>>
           ELSE /\ Continue(t, r)
                /\ IF r.l.pc = "idle"
                   THEN Return(t, "ok", sess)
                   ELSE /\ session' = sess
                        /\ turn' = [turn EXCEPT ![t].pc = "play", ![t].segments = rest]
    /\ UNCHANGED <<greeting, nturns>>

\* synthesize raises SynthesisError.
TtsRaise(t) ==
    /\ turn[t].pc = "tts"
    /\ Return(t, "error", on_error(session))
    /\ UNCHANGED <<greeting, nturns, seq, player, played>>

\* Step 8, `await play_sequence(output_callback)`: output_callback returns.
TurnPlaySent(t) ==
    /\ turn[t].pc = "play"
    /\ PlaySent(t)
    /\ UNCHANGED pipevars

\* Step 8: the chunk sleep ends; when play_sequence returns, so does the turn.
TurnPlaySlept(t) ==
    /\ turn[t].pc = "play"
    /\ PlaySlept(t)
    /\ IF player'[t].pc = "idle"
       THEN Return(t, "ok", session)
       ELSE UNCHANGED <<session, turn>>
    /\ UNCHANGED <<greeting, nturns>>

\* generate_greeting is called for a session not greeted yet.
GreetingStart ==
    /\ greeting = "idle" /\ ~session.greeting_sent
    /\ greeting' = "tts"
    /\ UNCHANGED <<session, turn, nturns, seq, player, played>>

GreetingReturn ==
    /\ greeting = "tts"
    /\ greeting' = "idle"
    /\ session' = add_message([session EXCEPT !.greeting_sent = TRUE], "sara")
    /\ UNCHANGED <<turn, nturns, seq, player, played>>

GreetingRaise ==
    /\ greeting = "tts"
    /\ greeting' = "idle"
    /\ UNCHANGED <<session, turn, nturns, seq, player, played>>

\* PipelineService.handle_barge_in: stop(), then reset(), with no suspension in
\* between.
HandleBargeIn ==
    /\ seq' = reset_sequencer(stop(seq))
    /\ session' = [session EXCEPT !.is_speaking = TRUE]
    /\ UNCHANGED <<player, played, turn, greeting, nturns>>

\* Observations of the turns' use of the session's sequencer.
VARIABLES
    callno,     \* history: per process_turn coroutine, the ordinal of the call
                \* of process_turn it is running (0 before its first call)
    owner       \* history: owner[i + 1] is the ordinal of the process_turn call
                \* that enqueued segment seg_i

turnobs == <<callno, owner>>

TurnObsInit ==
    /\ callno = [t \in Turns |-> 0]
    /\ owner = <<>>

\* The segments enqueued in this step belong to the call coroutine t runs.
Enqueued(t) ==
    owner' = owner \o [i \in 1..(seq'._total_segments - seq._total_segments) |-> callno[t]]

\* process_turn is cancelled while it awaits generate_response: CancelledError
\* is not an Exception, so only `finally` runs; the filler task is left alone.
LlmCancelled(t) ==
    /\ turn[t].pc = "llm"
    /\ session' = [session EXCEPT !.is_processing = FALSE]
    /\ turn' = [turn EXCEPT ![t].pc = "idle", ![t].segments = <<>>,
                            ![t].outcome = "cancelled"]
    /\ UNCHANGED <<greeting, nturns, seq, player, played>>

\* The delayed filler of a turn, timed.
MaxTicks == 3            \* clock ticks explored after a filler task is started

\* PipelineService.FILLER_DELAY_MS, and the step of the model's clock.
FILLER_DELAY_MS == 800
TickMs == 400

VARIABLES
    elapsed,    \* per process_turn coroutine: the milliseconds since the
                \* delayed-filler task of its call was started
    llm_at,     \* history: the value of `elapsed` when generate_response
                \* returned in the call, -1 before that
    nfillers,   \* history: the delayed fillers enqueued for the call
    late,       \* history: the delayed fillers enqueued for the call after
                \* process_turn had returned or been aborted
    barge_in    \* history: handle_barge_in ran during the call while its LLM
                \* or TTS call was in flight

fillobs == <<elapsed, llm_at, nfillers, late, barge_in>>

FillObsInit ==
    /\ elapsed = [t \in Turns |-> 0]
    /\ llm_at = [t \in Turns |-> -1]
    /\ nfillers = [t \in Turns |-> 0]
    /\ late = [t \in Turns |-> 0]
    /\ barge_in = [t \in Turns |-> FALSE]

\* asyncio.sleep(0): the sleep is over at once.
sleep_over_at_once(elapsed_ms, delay_ms) == TRUE

\* asyncio.sleep(delay_ms / 1000) is over once the delay has elapsed.
sleep_over(elapsed_ms, delay_ms) == elapsed_ms >= delay_ms

\* The clock advances for the call of coroutine t; a sleep that is over ends
\* before more time passes.
FillerTick(t) ==
    /\ turn[t].pc = "llm" \/ turn[t].filler = "sleeping"
    /\ elapsed[t] < MaxTicks * TickMs
    /\ turn[t].filler = "sleeping" => ~sleep_over(elapsed[t], FILLER_DELAY_MS)
    /\ elapsed' = [elapsed EXCEPT ![t] = @ + TickMs]
    /\ UNCHANGED <<llm_at, nfillers, late, barge_in>>

\* -------------------------------------------------------------- CallService

MaxAnswered == 1         \* handle_call_answered calls explored for the call

\* ConversationRole
USER == "user"
ASSISTANT == "assistant"

VARIABLES
    messages,       \* the roles of the call's ConversationSession.messages
    speech_failed   \* history: _process_speech was called and raised

callvars == <<messages, speech_failed>>

CallInit ==
    /\ messages = <<>>
    /\ speech_failed = FALSE

\* handle_call_answered: the greeting is added to the conversation, then
\* synthesized; the outcome of synthesize does not touch the messages.
HandleCallAnswered ==
    /\ Len(messages) < MaxAnswered
    /\ messages' = Append(messages, ASSISTANT)
    /\ UNCHANGED speech_failed

\* _process_speech, called by process_audio_chunk at the end of an utterance:
\* `self._asr.transcribe_audio` is looked up on an ASRService, which defines
\* transcribe and transcribe_stream only, so the ASR call raises
\* AttributeError before anything is added to the conversation.
ProcessSpeech ==
    /\ speech_failed' = TRUE
    /\ UNCHANGED messages

\* ------------------------------------------- telephony router and CallService

MaxSessions == 2         \* ConversationSession objects created in one behaviour
MaxFrames == 2           \* inbound media frames received on one connection
MaxGreetings == 2        \* handle_call_answered calls made for one session
MaxConcurrentCalls == 1  \* settings.max_concurrent_calls, scaled down from 100

\* call_control_id values and media WebSocket connections.
CallIds == {"c1", "c2"}
Conns == {1, 2}

\* CallState
RINGING == "ringing"
ANSWERED == "answered"
ACTIVE == "active"
ENDED == "ended"

\* len of the decoded μ-law payload of an inbound media frame: 500 ms at 8 kHz.
PayloadBytes == 4000

\* len(greeting_audio): synthesize returns b"" without a client, else PCM audio.
GreetingLens == {0, 1280}

\* PlaybackQueue(chunk_size=160)
PlaybackChunkSize == 160

VARIABLES
    call_service,       \* CallService: _sessions and _audio_buffers, and the
                        \* ConversationSession objects created so far (a
                        \* session is the position of its object in `objects`;
                        \* 0 and -1 stand for a missing key)
    _playback_queues,   \* the router's _playback_queues (and, with the same
                        \* keys, _active_connections): per call the connection
                        \* whose PlaybackQueue is registered, 0 for none
    conn                \* per media_websocket connection: its position, its
                        \* locals, its PlaybackQueue and its playback task

\* Observations of the calls.
VARIABLES
    own_vad,    \* history: per call, a VAD fed with that call's frames only
    heard,      \* history: per call, the event the service's VAD returned for
                \* its last frame and the event its own VAD returns for it
    hungup,     \* history: calls whose session was ended by a call.hangup
                \* webhook and that got no new session since
    barged      \* history: calls where SPEECH_START came while outbound audio
                \* was pending and nothing was enqueued since

telvars == <<call_service, _playback_queues, conn, own_vad, heard, hungup, barged>>

\* AudioProcessor.resample: the length of the result (resample_poly yields
\* ceil(n * up / down) samples; the lengths used here are exact multiples).
resample(n, from_rate, to_rate) ==
    IF from_rate = to_rate THEN n ELSE (n * to_rate + from_rate - 1) \div from_rate

\* AudioProcessor.telnyx_to_ai: μ-law 8 kHz bytes to PCM 16-bit 16 kHz bytes.
telnyx_to_ai(ulaw_8k) == resample(ulaw_8k, 8000, 16000) * 2

\* AudioProcessor.ai_to_telnyx: PCM 16-bit 16 kHz bytes to μ-law 8 kHz bytes.
ai_to_telnyx(pcm_16k) == resample(pcm_16k \div 2, 16000, 8000)

\* PlaybackQueue.enqueue: len(range(0, len(audio), chunk_bytes)) chunks.
enqueue(pending, audio) ==
    pending + (audio + PlaybackChunkSize - 1) \div PlaybackChunkSize

\* ConversationSession(...): state defaults to RINGING.
NewConversationSession == [state |-> RINGING, messages |-> <<>>]

\* CallService.create_session: a new object replaces whatever the key held.
create_session(cs, k) ==
    [cs EXCEPT !.objects = Append(@, NewConversationSession),
               !._sessions[k] = Len(cs.objects) + 1,
               !._audio_buffers[k] = 0]

\* ConversationSession.update_state on object s.
update_state(cs, s, new_state) == [cs EXCEPT !.objects[s].state = new_state]

\* CallService.end_session
end_session(cs, k) ==
    IF cs._sessions[k] = 0
    THEN cs
    ELSE [update_state(cs, cs._sessions[k], ENDED) EXCEPT
             !._sessions[k] = 0, !._audio_buffers[k] = -1]

\* A connection slot not used yet. `session` is the local of
\* handle_call_answered, `queue` the pending chunks of the connection's
\* PlaybackQueue, `task` its playback task (none, created, running, ended),
\* `drains` the connection whose queue the task took from _playback_queues,
\* `frames` and `utterances` count its inbound frames and its
\* _process_speech calls.
NewConn ==
    [pc |-> "new", call |-> "c1", greeting_sent |-> FALSE, session |-> 0,
     queue |-> 0, task |-> "none", drains |-> 0, frames |-> 0, utterances |-> 0]

TelInit ==
    /\ call_service = [_sessions |-> [k \in CallIds |-> 0],
                       _audio_buffers |-> [k \in CallIds |-> -1],
                       objects |-> <<>>]
    /\ _playback_queues = [k \in CallIds |-> 0]
    /\ conn = [c \in Conns |-> NewConn]
    /\ own_vad = [k \in CallIds |-> NewVad]
    /\ heard = [k \in CallIds |-> [event |-> SILENCE, own |-> SILENCE, speech |-> 0]]
    /\ hungup = {}
    /\ barged = {}

\* The outbound chunks pending for call k, in any connection's queue.
Pending(k) ==
    IF \E c \in Conns : conn[c].pc # "new" /\ conn[c].call = k /\ conn[c].queue > 0
    THEN 1 ELSE 0

\* handle_telnyx_webhook, event_type "call.initiated": create_session, then
\* answer_call, whose outcome changes nothing here.
CallInitiated(k) ==
    /\ Len(call_service.objects) < MaxSessions
    /\ call_service' = create_session(call_service, k)
    /\ hungup' = hungup \ {k}
    /\ UNCHANGED <<_playback_queues, conn, own_vad, heard, barged, vad>>

\* handle_telnyx_webhook, event_type "call.hangup": end_session, then the
\* call's entries of _active_connections and _playback_queues are deleted.
CallHangup(k) ==
    /\ call_service' = end_session(call_service, k)
    /\ _playback_queues' = [_playback_queues EXCEPT ![k] = 0]
    /\ hungup' = IF call_service._sessions[k] # 0 THEN hungup \cup {k} ELSE hungup
    /\ UNCHANGED <<conn, own_vad, heard, barged, vad>>

\* media_websocket from accept() to its first receive_text(): the connection
\* and a new PlaybackQueue are registered, the session is looked up or
\* created, the playback task is created.
MediaConnect(c, k) ==
    /\ conn[c].pc = "new"
    /\ call_service._sessions[k] = 0 => Len(call_service.objects) < MaxSessions
    /\ _playback_queues' = [_playback_queues EXCEPT ![k] = c]
    /\ call_service' = IF call_service._sessions[k] = 0
                       THEN create_session(call_service, k) ELSE call_service
    /\ conn' = [conn EXCEPT ![c] = [NewConn EXCEPT !.pc = "open", !.call = k,
                                                   !.task = "created"]]
    /\ hungup' = IF call_service._sessions[k] = 0 THEN hungup \ {k} ELSE hungup
    /\ UNCHANGED <<own_vad, heard, barged, vad>>

\* _send_playback_audio starts: it takes the queue registered for the call now,
\* and returns if there is none.
PlaybackTaskStart(c) ==
    /\ conn[c].task = "created"
    /\ LET q == _playback_queues[conn[c].call]
       IN  conn' = [conn EXCEPT ![c].task = IF q = 0 THEN "ended" ELSE "running",
                                ![c].drains = q]
    /\ UNCHANGED <<call_service, _playback_queues, own_vad, heard, hungup, barged,
                   vad>>

\* _send_playback_audio: dequeue() yields a chunk and send_json sends it as an
\* outbound media frame on the task's own WebSocket.
PlaybackSend(c) ==
    /\ conn[c].task = "running"
    /\ conn[conn[c].drains].queue > 0
    /\ conn' = [conn EXCEPT ![conn[c].drains].queue = @ - 1]
    /\ UNCHANGED <<call_service, _playback_queues, own_vad, heard, hungup, barged, vad>>

\* media_websocket's `finally`: the playback task is cancelled and the call's
\* entries of _active_connections and _playback_queues are deleted.
cleanup(cn, c) == [cn EXCEPT ![c].pc = "closed", ![c].task = "ended"]

\* A "start" frame: unless the greeting was sent on this connection,
\* handle_call_answered runs up to `await self._tts.synthesize`; without a
\* session it raises and the handler logs the failure.
MediaStart(c) ==
    /\ conn[c].pc = "open"
    /\ \A s \in 1..Len(call_service.objects) :
          Len(call_service.objects[s].messages) < MaxGreetings
    /\ LET k == conn[c].call
           s == call_service._sessions[k]
       IN  IF conn[c].greeting_sent \/ s = 0
           THEN UNCHANGED <<call_service, conn>>
           ELSE /\ call_service' =
                      [update_state(call_service, s, ANSWERED) EXCEPT
                          !.objects[s].messages = Append(@, ASSISTANT)]
                /\ conn' = [conn EXCEPT ![c].pc = "greeting", ![c].session = s]
    /\ UNCHANGED <<_playback_queues, own_vad, heard, hungup, barged, vad>>

\* synthesize returns the greeting audio: the session object goes to ACTIVE,
\* the audio is converted and enqueued on the queue registered for the call.
GreetingSynthesized(c, greeting_audio) ==
    /\ conn[c].pc = "greeting"
    /\ LET k == conn[c].call
           q == _playback_queues[k]
           telnyx_audio == ai_to_telnyx(greeting_audio)
       IN  /\ call_service' = update_state(call_service, conn[c].session, ACTIVE)
           /\ conn' = [[conn EXCEPT ![c].pc = "open", ![c].greeting_sent = TRUE]
                          EXCEPT ![IF q = 0 THEN c ELSE q].queue =
                                      IF q = 0 THEN @ ELSE enqueue(@, telnyx_audio)]
           /\ barged' = IF q # 0 /\ telnyx_audio > 0 THEN barged \ {k} ELSE barged
    /\ UNCHANGED <<_playback_queues, own_vad, heard, hungup, vad>>

\* synthesize raises: "Failed to send greeting" is logged, greeting_sent stays
\* False and the session stays ANSWERED.
GreetingFailed(c) ==
    /\ conn[c].pc = "greeting"
    /\ conn' = [conn EXCEPT ![c].pc = "open"]
    /\ UNCHANGED <<call_service, _playback_queues, own_vad, heard, hungup, barged,
                   vad>>

\* process_audio_chunk on a frame of call k, for an existing session: the
\* shared VADService singleton (initialized, with no suspension, on first use)
\* processes the chunk and the audio is accumulated while it reports speaking.
\* At the end of an utterance with audio buffered, _process_speech raises
\* AttributeError (ASRService has no transcribe_audio), `finally` empties the
\* buffer and raises AttributeError again (VADService has no reset_state): the
\* result tells whether the call raised.
\* The buffer takes every chunk, whatever the VAD says.
process_audio_chunk_buffers_all(cs, v, k, is_speech, audio_bytes) ==
    LET r == process_chunk(v, is_speech, audio_bytes \div 2)
        buffered == cs._audio_buffers[k] + audio_bytes
        ended == r.event = SPEECH_END /\ buffered > 0
    IN  [cs |-> [cs EXCEPT !._audio_buffers[k] = IF ended THEN 0 ELSE buffered],
         vad |-> r.vad, event |-> r.event, raised |-> ended,
         speech |-> IF ended THEN buffered ELSE 0]

process_audio_chunk(cs, v, k, is_speech, audio_bytes) ==
    LET r == process_chunk(v, is_speech, audio_bytes \div 2)
        buffered == IF r.vad._is_speaking
                    THEN cs._audio_buffers[k] + audio_bytes
                    ELSE cs._audio_buffers[k]
        ended == r.event = SPEECH_END /\ buffered > 0
    IN  [cs |-> [cs EXCEPT !._audio_buffers[k] = IF ended THEN 0 ELSE buffered],
         vad |-> r.vad, event |-> r.event, raised |-> ended,
         speech |-> IF ended THEN buffered ELSE 0]

\* An inbound "media" frame: decoded, converted and handed to
\* process_audio_chunk. An exception leaves the receive loop through
\* `except Exception` and `finally`.
MediaFrame(c, is_speech) ==
    /\ conn[c].pc = "open"
    /\ conn[c].frames < MaxFrames
    /\ LET k == conn[c].call
           pcm_audio == telnyx_to_ai(PayloadBytes)
           r == process_audio_chunk(call_service, vad, k, is_speech, pcm_audio)
           o == process_chunk(own_vad[k], is_speech, pcm_audio \div 2)
           counted == [conn EXCEPT ![c].frames = @ + 1]
       IN  IF call_service._sessions[k] = 0
           THEN /\ conn' = counted
                /\ UNCHANGED <<call_service, _playback_queues, own_vad, heard, barged, vad>>
           ELSE /\ call_service' = r.cs
                /\ vad' = r.vad
                /\ own_vad' = [own_vad EXCEPT ![k] = o.vad]
                /\ heard' = [heard EXCEPT ![k] = [event |-> r.event, own |-> o.event,
                                                   speech |-> r.speech]]
                /\ barged' = IF r.event = SPEECH_START /\ Pending(k) > 0
                             THEN barged \cup {k} ELSE barged
                /\ IF r.raised
                   THEN /\ conn' = cleanup([counted EXCEPT ![c].utterances = @ + 1], c)
                        /\ _playback_queues' = [_playback_queues EXCEPT ![k] = 0]
                   ELSE /\ conn' = counted
                        /\ UNCHANGED _playback_queues
    /\ UNCHANGED hungup

\* A "stop" frame, or receive_text raising WebSocketDisconnect or another
\* error: the loop is left and `finally` cleans up.
MediaStop(c) ==
    /\ conn[c].pc = "open"
    /\ conn' = cleanup(conn, c)
    /\ _playback_queues' = [_playback_queues EXCEPT ![conn[c].call] = 0]
    /\ UNCHANGED <<call_service, own_vad, heard, hungup, barged, vad>>

\* ----------------------------------------------------------------- EventBus

MaxEvents == 3           \* publish calls explored in one behaviour
MaxSubscribers == 2      \* subscriptions held at a time, over all event types
MaxClients == 2          \* admin WebSocket clients registered at a time
MaxHistory == 2          \* EventBus._max_history, scaled down from 100

\* Coroutines calling publish; event types; handlers; admin WebSocket clients.
Publishers == {1, 2}
EventTypes == {"call.started", "call.ended"}
Handlers == {"h1", "h2"}
Clients == {"w1", "w2"}

VARIABLES
    bus,        \* the EventBus: _subscribers, _websocket_clients, _event_history
    pub,        \* per publish coroutine: its suspension point and locals
    nevents     \* history: the number of publish calls so far (events are
                \* numbered 1, 2, ... in the order of their publish calls)

busvars == <<bus, pub, nevents>>

VARIABLES
    received    \* history: per handler and event, how often the handler was
                \* called with the event (what the handler itself has seen)

busobs == <<received>>

BusObsInit == received = [h \in Handlers |-> [e \in 1..MaxEvents |-> 0]]

\* EventBus.__init__
NewEventBus ==
    [_subscribers |-> [t \in EventTypes |-> <<>>], _websocket_clients |-> <<>>,
     _event_history |-> <<>>]

\* A publish coroutine that is not running. `subscribed` are the handlers
\* subscribed to the event's type when publish was called; `tasks` are the _safe_call
\* coroutines gather runs, one per handler, each ready, suspended in its
\* handler, or done with a result; `index`, `client` and `disconnected` are the
\* locals of _broadcast_websocket; `invoked` tells how often each handler was
\* invoked with the event and `handled` is the set of what the handlers of the
\* run did, `listed` are the clients registered ever since the broadcast of
\* the run began, `sent` and `failed` those whose send_json returned or raised, `outcome` how the run ended.
IdlePublish ==
    [pc |-> "idle", event |-> 0, subscribed |-> <<>>, tasks |-> <<>>,
     invoked |-> [h \in Handlers |-> 0], handled |-> {}, index |-> 0,
     client |-> "none", disconnected |-> <<>>, outcome |-> "none",
     listed |-> {}, sent |-> {}, failed |-> {}]

BusInit ==
    /\ bus = NewEventBus
    /\ pub = [p \in Publishers |-> IdlePublish]
    /\ nevents = 0

\* list.remove(x): the first occurrence is removed.
RECURSIVE remove(_, _)
remove(list, x) ==
    IF list = <<>> THEN <<>>
    ELSE IF Head(list) = x THEN Tail(list) ELSE <<Head(list)>> \o remove(Tail(list), x)

Contains(list, x) == \E i \in 1..Len(list) : list[i] = x

\* EventBus.subscribe and unsubscribe
subscribe(b, event_type, handler) ==
    [b EXCEPT !._subscribers[event_type] = Append(@, handler)]

unsubscribe(b, event_type, handler) ==
    IF Contains(b._subscribers[event_type], handler)
    THEN [b EXCEPT !._subscribers[event_type] = remove(@, handler)]
    ELSE b

Subscriptions == Len(bus._subscribers["call.started"]) + Len(bus._subscribers["call.ended"])

Subscribe(event_type, handler) ==
    /\ Subscriptions < MaxSubscribers
    /\ bus' = subscribe(bus, event_type, handler)
    /\ UNCHANGED <<pub, nevents>>

Unsubscribe(event_type, handler) ==
    /\ bus' = unsubscribe(bus, event_type, handler)
    /\ UNCHANGED <<pub, nevents>>

\* EventBus.register_websocket and unregister_websocket
RegisterWebsocket(client) ==
    /\ Len(bus._websocket_clients) < MaxClients
    /\ bus' = [bus EXCEPT !._websocket_clients = Append(@, client)]
    /\ UNCHANGED <<pub, nevents>>

UnregisterWebsocket(client) ==
    /\ Contains(bus._websocket_clients, client)
    /\ bus' = [bus EXCEPT !._websocket_clients = remove(@, client)]
    /\ pub' = [p \in Publishers |->
                  IF pub[p].pc = "idle" THEN pub[p]
                  ELSE [pub[p] EXCEPT !.listed = @ \ {client}]]
    /\ UNCHANGED nevents

\* A history that is never trimmed.
store_all(history, event) == Append(history, event)

\* publish: the event is stored in the history, the oldest one is dropped
\* beyond _max_history.
store(history, event) ==
    LET h == Append(history, event)
    IN  IF Len(h) > MaxHistory THEN Tail(h) ELSE h

\* _safe_call: what the coroutine ends with, given what the handler did
\* (returned, raised an Exception, or raised CancelledError, which
\* `except Exception` does not catch).
_safe_call_propagates(handler_outcome) == handler_outcome

_safe_call(handler_outcome) ==
    IF handler_outcome = "raised" THEN "returned" ELSE handler_outcome

\* asyncio.gather: with return_exceptions=False the first exception of a
\* child is raised in the caller.
gather_propagates(results, return_exceptions) ==
    IF \A i \in 1..Len(results) : results[i] = "returned"
    THEN "returned" ELSE "raised"

\* asyncio.gather(*coros, return_exceptions=True): exceptions and
\* cancellations of the children come back as results.
gather(results, return_exceptions) ==
    IF return_exceptions \/ \A i \in 1..Len(results) : results[i] = "returned"
    THEN "returned" ELSE "raised"

\* _broadcast_websocket from the test of its `for` loop on: the loop reads the
\* live client list at position `index`; after the loop the disconnected
\* clients are removed, and list.remove raises ValueError for a client that is
\* no longer listed. r is [b: the bus, l: the coroutine's locals].
RECURSIVE remove_disconnected(_, _)
remove_disconnected(clients, disconnected) ==
    IF disconnected = <<>> THEN [clients |-> clients, raised |-> FALSE]
    ELSE IF Contains(clients, Head(disconnected))
         THEN remove_disconnected(remove(clients, Head(disconnected)), Tail(disconnected))
         ELSE [clients |-> clients, raised |-> TRUE]

Listed(b) == {b._websocket_clients[i] : i \in 1..Len(b._websocket_clients)}

broadcast_run(b, l) ==
    IF l.index < Len(b._websocket_clients)
    THEN [b |-> b, l |-> [l EXCEPT !.pc = "send",
                                   !.client = b._websocket_clients[l.index + 1]]]
    ELSE LET r == remove_disconnected(b._websocket_clients, l.disconnected)
         IN  [b |-> [b EXCEPT !._websocket_clients = r.clients],
              l |-> [l EXCEPT !.pc = "idle", !.index = 0, !.client = "none",
                              !.disconnected = <<>>,
                              !.outcome = IF r.raised THEN "raised" ELSE "returned"]]

\* Only the first handler gets a task.
safe_calls_first(handlers) ==
    <<[handler |-> handlers[1], st |-> "ready", did |-> "none"]>>

\* [self._safe_call(handler, event) for handler in handlers]: one coroutine per
\* handler of the list, in the order of the list; gather makes each a task.
safe_calls(handlers) ==
    [i \in 1..Len(handlers) |-> [handler |-> handlers[i], st |-> "ready", did |-> "none"]]

\* publish is called: the event is created and stored, then either gather is
\* awaited on one _safe_call per subscribed handler or, without handlers,
\* _broadcast_websocket runs to its first send.
PublishStart(p, event_type) ==
    /\ pub[p].pc = "idle"
    /\ nevents < MaxEvents
    /\ nevents' = nevents + 1
    /\ LET event == nevents + 1
           stored == [bus EXCEPT !._event_history = store(@, event)]
           handlers == bus._subscribers[event_type]
           l == [IdlePublish EXCEPT !.event = event, !.subscribed = handlers,
                                    !.listed = IF handlers # <<>> THEN {} ELSE Listed(bus)]
       IN  IF handlers # <<>>
           THEN /\ bus' = stored
                /\ pub' = [pub EXCEPT ![p] =
                             [l EXCEPT !.pc = "gather", !.tasks = safe_calls(handlers)]]
           ELSE LET r == broadcast_run(stored, l)
                IN  bus' = r.b /\ pub' = [pub EXCEPT ![p] = r.l]

\* A _safe_call task starts: the handler is invoked with the event and
\* returns, raises, or suspends.
HandlerCalled(p, i, did) ==
    /\ pub[p].pc = "gather"
    /\ i \in 1..Len(pub[p].tasks)
    /\ pub[p].tasks[i].st = "ready"
    /\ pub' = [pub EXCEPT ![p].invoked[pub[p].tasks[i].handler] = @ + 1,
                          ![p].tasks[i] =
                              IF did = "suspended"
                              THEN [@ EXCEPT !.st = "suspended"]
                              ELSE [@ EXCEPT !.st = "done", !.did = did]]
    /\ UNCHANGED <<bus, nevents>>

\* A suspended handler goes on and returns or raises.
HandlerResumed(p, i, did) ==
    /\ pub[p].pc = "gather"
    /\ i \in 1..Len(pub[p].tasks)
    /\ pub[p].tasks[i].st = "suspended"
    /\ pub' = [pub EXCEPT ![p].tasks[i] = [@ EXCEPT !.st = "done", !.did = did]]
    /\ UNCHANGED <<bus, nevents>>

\* Every task is done: gather returns or raises in publish, which then calls
\* _broadcast_websocket.
GatherDone(p) ==
    /\ pub[p].pc = "gather"
    /\ \A i \in 1..Len(pub[p].tasks) : pub[p].tasks[i].st = "done"
    /\ LET results == [i \in 1..Len(pub[p].tasks) |-> _safe_call(pub[p].tasks[i].did)]
           l == [pub[p] EXCEPT !.tasks = <<>>, !.subscribed = <<>>,
                               !.listed = Listed(bus),
                               !.handled = {pub[p].tasks[i].did :
                                               i \in 1..Len(pub[p].tasks)}]
       IN  IF gather(results, TRUE) = "raised"
           THEN /\ pub' = [pub EXCEPT ![p] = [l EXCEPT !.pc = "idle", !.outcome = "raised"]]
                /\ UNCHANGED bus
           ELSE LET r == broadcast_run(bus, l)
                IN  bus' = r.b /\ pub' = [pub EXCEPT ![p] = r.l]
    /\ UNCHANGED nevents

\* `await client.send_json(message)` returns or raises for the client the loop
\* took at position `index`; a failing client is noted, then the loop goes on.
BroadcastSent(p, ok) ==
    /\ pub[p].pc = "send"
    /\ LET l == [pub[p] EXCEPT !.index = @ + 1,
                               !.disconnected = IF ok THEN @ ELSE Append(@, pub[p].client),
                               !.sent = IF ok THEN @ \cup {pub[p].client} ELSE @,
                               !.failed = IF ok THEN @ ELSE @ \cup {pub[p].client}]
           r == broadcast_run(bus, l)
       IN  bus' = r.b /\ pub' = [pub EXCEPT ![p] = r.l]
    /\ UNCHANGED nevents

\* ----------------------------------------------------------- specifications

vars == <<cbvars, seqvars, obsvars, vadvars, pipevars, callvars, turnobs, telvars, busvars, busobs, fillobs, playobs>>

Init == CbInit /\ SeqInit /\ ObsInit /\ VadInit /\ PipeInit /\ CallInit /\ TurnObsInit /\ TelInit /\ BusInit /\ BusObsInit /\ FillObsInit /\ PlayObsInit

\* What each component leaves alone.
BreakerFrame == <<seqvars, obsvars, vadvars, pipevars, callvars, turnobs, telvars, busvars, busobs, fillobs, playobs>>
SequencerFrame == <<cbvars, obsvars, vadvars, pipevars, callvars, turnobs, telvars, busvars, busobs, fillobs, playobs>>
VadFrame == <<cbvars, seqvars, obsvars, pipevars, callvars, turnobs, telvars, busvars, busobs, fillobs, playobs>>
PipelineFrame == <<cbvars, obsvars, vadvars, callvars, turnobs, telvars, busvars, busobs, fillobs, playobs>>
CallFrame == <<cbvars, seqvars, obsvars, vadvars, pipevars, turnobs, telvars, busvars, busobs, fillobs, playobs>>

\* The circuit breaker under concurrent callers.
BreakerNext ==
    \/ CallEnter /\ UNCHANGED BreakerFrame
    \/ CallReturn /\ UNCHANGED BreakerFrame
    \/ CallRaise /\ UNCHANGED BreakerFrame
    \/ CallCancel /\ UNCHANGED BreakerFrame
    \/ ReadState /\ UNCHANGED BreakerFrame
    \/ Reset /\ UNCHANGED BreakerFrame
    \/ Tick /\ UNCHANGED BreakerFrame

BreakerSpec == Init /\ [][BreakerNext]_vars

\* One session's sequencer with its producers, its player and its controls.
SequencerNext ==
    \/ AddSegment /\ UNCHANGED SequencerFrame
    \/ \E p \in Players : PlayStart(p) /\ UNCHANGED SequencerFrame
    \/ \E p \in Players : PlayWake(p) /\ UNCHANGED SequencerFrame
    \/ \E p \in Players : PlaySent(p) /\ UNCHANGED SequencerFrame
    \/ \E p \in Players : PlaySlept(p) /\ UNCHANGED SequencerFrame
    \/ Stop /\ UNCHANGED SequencerFrame
    \/ Pause /\ UNCHANGED SequencerFrame
    \/ ResumePlayback /\ UNCHANGED SequencerFrame
    \/ ResetSequencer /\ UNCHANGED SequencerFrame

SequencerInit == Init /\ name = "llm"

SequencerSpec == SequencerInit /\ [][SequencerNext]_vars

\* One session's playback left to run: segments are added and playback is paused
\* and resumed, but never stopped or reset, and what is put out is observed.
PlaybackFrame == <<cbvars, obsvars, vadvars, pipevars, callvars, turnobs, telvars, busvars, busobs, fillobs>>

PlaybackNext ==
    \/ AddSegment /\ Given /\ UNCHANGED PlaybackFrame
    \/ \E p \in Players : PlayStart(p) /\ Delivered(p) /\ UNCHANGED PlaybackFrame
    \/ \E p \in Players : PlayWake(p) /\ Delivered(p) /\ UNCHANGED PlaybackFrame
    \/ \E p \in Players : PlaySent(p) /\ Delivered(p) /\ UNCHANGED PlaybackFrame
    \/ \E p \in Players : PlaySlept(p) /\ Delivered(p) /\ UNCHANGED PlaybackFrame
    \/ Pause /\ UNCHANGED <<playobs, PlaybackFrame>>
    \/ ResumePlayback /\ UNCHANGED <<playobs, PlaybackFrame>>

PlaybackSpec == SequencerInit /\ [][PlaybackNext]_vars

\* One session's playback with stop() and barge-in, observed: `stopped` and
\* `cancelled` follow the calls.
BargeInFrame == <<cbvars, vadvars, callvars, turnobs, telvars, busvars, busobs, fillobs, playobs>>

BargeInNext ==
    \/ AddSegment /\ UNCHANGED <<obsvars, pipevars, BargeInFrame>>
    \/ \E p \in Players : /\ PlayStart(p)
                          /\ stopped' = FALSE
                          /\ UNCHANGED <<cancelled, pipevars, BargeInFrame>>
    \/ \E p \in Players : PlaySent(p) /\ UNCHANGED <<obsvars, pipevars, BargeInFrame>>
    \/ \E p \in Players : PlaySlept(p) /\ UNCHANGED <<obsvars, pipevars, BargeInFrame>>
    \/ Stop /\ stopped' = TRUE /\ UNCHANGED <<cancelled, pipevars, BargeInFrame>>
    \/ /\ HandleBargeIn
       /\ stopped' = TRUE
       /\ cancelled' = cancelled \cup Playing
       /\ UNCHANGED BargeInFrame

BargeInSpec == SequencerInit /\ [][BargeInNext]_vars

\* One VADService fed with audio streams.
VadNext ==
    \/ ProcessChunk /\ UNCHANGED VadFrame
    \/ VadReset /\ UNCHANGED VadFrame

VadSpec == SequencerInit /\ [][VadNext]_vars

\* process_turn is called when every earlier turn of the session has returned.
AfterTurns == \A u \in Turns : turn[u].pc = "idle"

\* process_turn is called while earlier turns have returned or are in step 8,
\* playing.
DuringPlayback == \A u \in Turns : turn[u].pc \in {"idle", "play"}

\* The steps of the greeting and of the turns once they are started.
TurnSteps ==
    \/ \E t \in Turns, text \in Texts : AsrReturn(t, text) /\ UNCHANGED PipelineFrame
    \/ \E t \in Turns : AsrRaise(t) /\ UNCHANGED PipelineFrame
    \/ \E t \in Turns : FillerSlept(t) /\ UNCHANGED PipelineFrame
    \/ \E t \in Turns, segments \in Responses, failed \in BOOLEAN :
          LlmReturn(t, segments, failed) /\ UNCHANGED PipelineFrame
    \/ \E t \in Turns : LlmRaise(t) /\ UNCHANGED PipelineFrame
    \/ \E t \in Turns, audio \in TtsLens : TtsReturn(t, audio) /\ UNCHANGED PipelineFrame
    \/ \E t \in Turns : TtsRaise(t) /\ UNCHANGED PipelineFrame
    \/ \E t \in Turns : TurnPlaySent(t) /\ UNCHANGED PipelineFrame
    \/ \E t \in Turns : TurnPlaySlept(t) /\ UNCHANGED PipelineFrame
    \/ GreetingStart /\ UNCHANGED PipelineFrame
    \/ GreetingReturn /\ UNCHANGED PipelineFrame
    \/ GreetingRaise /\ UNCHANGED PipelineFrame

\* One session driven by PipelineService (the greeting and the turns, one
\* after the other, each turn playing the session's sequencer itself) and one
\* call driven by CallService.
PipelineNext ==
    \/ \E t \in Turns : AfterTurns /\ TurnStart(t) /\ UNCHANGED PipelineFrame
    \/ TurnSteps
    \/ HandleCallAnswered /\ UNCHANGED CallFrame
    \/ ProcessSpeech /\ UNCHANGED CallFrame

\* The same session when a turn is also invoked during the playback of an
\* earlier one.
OverlapNext ==
    \/ \E t \in Turns : DuringPlayback /\ TurnStart(t) /\ UNCHANGED PipelineFrame
    \/ TurnSteps

PipelineInit ==
    /\ CbInit /\ name = "llm"
    /\ seq = NewSequencer
    /\ player = [t \in Turns |-> IdlePlayer]
    /\ played = <<>>
    /\ ObsInit /\ VadInit /\ PipeInit /\ CallInit /\ TurnObsInit /\ TelInit /\ BusInit /\ BusObsInit /\ FillObsInit /\ PlayObsInit

PipelineSpec == PipelineInit /\ [][PipelineNext]_vars

OverlapSpec == PipelineInit /\ [][OverlapNext]_vars

\* The same session with the turns observed: which call of process_turn each
\* segment comes from.
InterleaveFrame == <<cbvars, obsvars, vadvars, callvars, telvars, busvars, busobs, fillobs, playobs>>

InterleaveNext ==
    \/ \E t \in Turns :
          /\ DuringPlayback /\ TurnStart(t)
          /\ callno' = [callno EXCEPT ![t] = nturns + 1]
          /\ UNCHANGED <<owner, InterleaveFrame>>
    \/ \E t \in Turns :
          /\ \/ \E text \in Texts : AsrReturn(t, text)
             \/ AsrRaise(t)
             \/ FillerSlept(t)
             \/ \E segments \in Responses, failed \in BOOLEAN : LlmReturn(t, segments, failed)
             \/ LlmRaise(t)
             \/ \E audio \in TtsLens : TtsReturn(t, audio)
             \/ TtsRaise(t)
             \/ TurnPlaySent(t)
             \/ TurnPlaySlept(t)
          /\ Enqueued(t)
          /\ UNCHANGED <<callno, InterleaveFrame>>

InterleaveSpec == PipelineInit /\ [][InterleaveNext]_vars

\* The call a connection is opened for when each call has its own connection.
CallOf(c) == IF c = 1 THEN "c1" ELSE "c2"

\* The webhooks and the media connections of concurrent calls on the one
\* CallService of the process: call set-up, greeting, playback and teardown.
TelephonyFrame == <<cbvars, seqvars, obsvars, chunks, pipevars, callvars, turnobs, busvars, busobs, fillobs, playobs>>

TelephonyNext ==
    \/ \E k \in CallIds : CallInitiated(k) /\ UNCHANGED TelephonyFrame
    \/ \E k \in CallIds : CallHangup(k) /\ UNCHANGED TelephonyFrame
    \/ \E c \in Conns, k \in CallIds : MediaConnect(c, k) /\ UNCHANGED TelephonyFrame
    \/ \E c \in Conns : PlaybackTaskStart(c) /\ UNCHANGED TelephonyFrame
    \/ \E c \in Conns : PlaybackSend(c) /\ UNCHANGED TelephonyFrame
    \/ \E c \in Conns : MediaStart(c) /\ UNCHANGED TelephonyFrame
    \/ \E c \in Conns, greeting_audio \in GreetingLens :
          GreetingSynthesized(c, greeting_audio) /\ UNCHANGED TelephonyFrame
    \/ \E c \in Conns : GreetingFailed(c) /\ UNCHANGED TelephonyFrame
    \/ \E c \in Conns : MediaStop(c) /\ UNCHANGED TelephonyFrame

TelephonySpec == SequencerInit /\ [][TelephonyNext]_vars

\* The media path of concurrent calls, each call with its own WebSocket
\* connection, on the one CallService and the one VADService of the process.
MediaNext ==
    \/ \E k \in CallIds :
          /\ call_service._sessions[k] = 0
          /\ CallInitiated(k) /\ UNCHANGED TelephonyFrame
    \/ \E c \in Conns : MediaConnect(c, CallOf(c)) /\ UNCHANGED TelephonyFrame
    \/ \E c \in Conns : PlaybackTaskStart(c) /\ UNCHANGED TelephonyFrame
    \/ \E c \in Conns : PlaybackSend(c) /\ UNCHANGED TelephonyFrame
    \/ \E c \in Conns : MediaStart(c) /\ UNCHANGED TelephonyFrame
    \/ \E c \in Conns, greeting_audio \in GreetingLens :
          GreetingSynthesized(c, greeting_audio) /\ UNCHANGED TelephonyFrame
    \/ \E c \in Conns : GreetingFailed(c) /\ UNCHANGED TelephonyFrame
    \/ \E c \in Conns, is_speech \in BOOLEAN :
          MediaFrame(c, is_speech) /\ UNCHANGED TelephonyFrame

MediaSpec == SequencerInit /\ [][MediaNext]_vars

\* The inbound side of the media path alone: sessions, connections and audio
\* frames of two concurrent calls, without greetings and playback.
InboundNext ==
    \/ \E k \in CallIds :
          /\ call_service._sessions[k] = 0
          /\ CallInitiated(k) /\ UNCHANGED TelephonyFrame
    \/ \E c \in Conns : MediaConnect(c, CallOf(c)) /\ UNCHANGED TelephonyFrame
    \/ \E c \in Conns, is_speech \in BOOLEAN :
          MediaFrame(c, is_speech) /\ UNCHANGED TelephonyFrame
    \/ \E k \in CallIds : CallHangup(k) /\ UNCHANGED TelephonyFrame

InboundSpec == SequencerInit /\ [][InboundNext]_vars

\* The event bus with subscriptions and one coroutine that publishes event
\* after event; no admin client is registered.
BusFrame == <<cbvars, seqvars, obsvars, vadvars, pipevars, callvars, turnobs, telvars, fillobs, playobs>>
PublishFrame == <<BusFrame, busobs>>

PublishNext ==
    \/ \E t \in EventTypes, h \in Handlers : Subscribe(t, h) /\ UNCHANGED PublishFrame
    \/ \E t \in EventTypes, h \in Handlers : Unsubscribe(t, h) /\ UNCHANGED PublishFrame
    \/ \E t \in EventTypes : PublishStart(1, t) /\ UNCHANGED PublishFrame
    \/ \E i \in 1..MaxSubscribers, did \in {"returned", "raised", "cancelled", "suspended"} :
          HandlerCalled(1, i, did) /\ UNCHANGED PublishFrame
    \/ \E i \in 1..MaxSubscribers, did \in {"returned", "raised", "cancelled"} :
          HandlerResumed(1, i, did) /\ UNCHANGED PublishFrame
    \/ GatherDone(1) /\ UNCHANGED PublishFrame

PublishSpec == SequencerInit /\ [][PublishNext]_vars

\* The event bus with admin clients, each registered at most once at a time,
\* and concurrent publishes of events without subscribers.
BroadcastNext ==
    \/ \E w \in Clients :
          /\ ~Contains(bus._websocket_clients, w)
          /\ RegisterWebsocket(w)
          /\ UNCHANGED PublishFrame
    \/ \E w \in Clients : UnregisterWebsocket(w) /\ UNCHANGED PublishFrame
    \/ \E p \in Publishers, t \in EventTypes : PublishStart(p, t) /\ UNCHANGED PublishFrame
    \/ \E p \in Publishers, ok \in BOOLEAN : BroadcastSent(p, ok) /\ UNCHANGED PublishFrame

BroadcastSpec == SequencerInit /\ [][BroadcastNext]_vars

\* Concurrent publishes of one event type: both coroutines publish while
\* handlers, each subscribed at most once, suspend in their processing.
ConcurrentFrame == <<BusFrame>>

\* The handler of task i of publish p is called with p's event.
Received(p, i) ==
    received' = [received EXCEPT ![pub[p].tasks[i].handler][pub[p].event] = @ + 1]

ConcurrentNext ==
    \/ \E h \in Handlers :
          /\ ~Contains(bus._subscribers["call.started"], h)
          /\ Subscribe("call.started", h)
          /\ UNCHANGED <<ConcurrentFrame, received>>
    \/ \E h \in Handlers :
          /\ Contains(bus._subscribers["call.started"], h)
          /\ Unsubscribe("call.started", h)
          /\ UNCHANGED <<ConcurrentFrame, received>>
    \/ \E p \in Publishers :
          PublishStart(p, "call.started") /\ UNCHANGED <<ConcurrentFrame, received>>
    \/ \E p \in Publishers, i \in 1..MaxSubscribers, did \in {"returned", "suspended"} :
          HandlerCalled(p, i, did) /\ Received(p, i) /\ UNCHANGED ConcurrentFrame
    \/ \E p \in Publishers, i \in 1..MaxSubscribers :
          HandlerResumed(p, i, "returned") /\ UNCHANGED <<ConcurrentFrame, received>>
    \/ \E p \in Publishers : GatherDone(p) /\ UNCHANGED <<ConcurrentFrame, received>>

ConcurrentSpec == SequencerInit /\ [][ConcurrentNext]_vars

\* One process_turn coroutine with its delayed-filler task and a clock: turns
\* are invoked one after another, each after the playback of the one before;
\* the caller may barge in while the LLM or TTS call of a turn is in flight.
FillerFrame == <<cbvars, obsvars, vadvars, callvars, turnobs, telvars, busvars, busobs, playobs>>

\* The delayed fillers enqueued in this step, for the call of coroutine t.
FillerEnqueued(t) ==
    LET n == seq'._total_segments - seq._total_segments
    IN  /\ nfillers' = [nfillers EXCEPT ![t] = @ + n]
        /\ late' = [late EXCEPT ![t] = IF turn[t].pc = "idle" THEN @ + n ELSE @]

FillerNext ==
    \/ /\ TurnStart(1)
       /\ elapsed' = [elapsed EXCEPT ![1] = 0]
       /\ llm_at' = [llm_at EXCEPT ![1] = -1]
       /\ nfillers' = [nfillers EXCEPT ![1] = 0]
       /\ late' = [late EXCEPT ![1] = 0]
       /\ barge_in' = [barge_in EXCEPT ![1] = FALSE]
       /\ UNCHANGED FillerFrame
    \/ \E text \in Texts : AsrReturn(1, text) /\ UNCHANGED <<fillobs, FillerFrame>>
    \/ AsrRaise(1) /\ UNCHANGED <<fillobs, FillerFrame>>
    \/ FillerTick(1) /\ UNCHANGED <<seqvars, pipevars, FillerFrame>>
    \/ /\ sleep_over(elapsed[1], FILLER_DELAY_MS)
       /\ FillerSlept(1)
       /\ FillerEnqueued(1)
       /\ UNCHANGED <<elapsed, llm_at, barge_in, FillerFrame>>
    \/ \E segments \in Responses, failed \in BOOLEAN :
          /\ LlmReturn(1, segments, failed)
          /\ llm_at' = [llm_at EXCEPT ![1] = elapsed[1]]
          /\ UNCHANGED <<elapsed, nfillers, late, barge_in, FillerFrame>>
    \/ LlmRaise(1) /\ UNCHANGED <<fillobs, FillerFrame>>
    \/ LlmCancelled(1) /\ UNCHANGED <<fillobs, FillerFrame>>
    \/ \E audio \in TtsLens : TtsReturn(1, audio) /\ UNCHANGED <<fillobs, FillerFrame>>
    \/ TtsRaise(1) /\ UNCHANGED <<fillobs, FillerFrame>>
    \/ TurnPlaySent(1) /\ UNCHANGED <<fillobs, FillerFrame>>
    \/ TurnPlaySlept(1) /\ UNCHANGED <<fillobs, FillerFrame>>
    \/ /\ turn[1].pc \in {"llm", "tts"}
       /\ HandleBargeIn
       /\ barge_in' = [barge_in EXCEPT ![1] = TRUE]
       /\ UNCHANGED <<elapsed, llm_at, nfillers, late, FillerFrame>>

FillerSpec == PipelineInit /\ [][FillerNext]_vars

\* ------------------------------------------------- circuit breaker: claims

\* The breaker is OPEN and recovery_timeout has not elapsed since it opened.
OpenFor == breaker._state = OPEN /\ now - opened_at < RecoveryTimeout

\* The step is a call() invocation; the step invokes the guarded function.
Calls == ncalls' = ncalls + 1
Invokes == inflight'.normal + inflight'.probe > inflight.normal + inflight.probe

\* The fallback message configured for the breaker: the entry under its own
\* name, the "default" entry when it has none.
ExpectedFallback ==
    IF name = "llm" THEN "llm_busy" ELSE "default_error"

\* C1: while the breaker is OPEN and recovery_timeout has not elapsed since it
\* opened, a call() never invokes the guarded function and is rejected with
\* CircuitBreakerOpen, whatever other calls are in flight.
C1_OpenNeverInvokes ==
    [][(Calls /\ OpenFor) =>
         (~Invokes /\ ev'.kind = "CircuitBreakerOpen" /\ breaker'._state = OPEN)]_vars

\* C1 witness: a call was rejected on an OPEN breaker, part of the timeout gone,
\* while another call admitted earlier is still in flight.
C1_Witness ==
    /\ ev.kind = "CircuitBreakerOpen"
    /\ breaker._state = OPEN
    /\ now > opened_at
    /\ now - opened_at < RecoveryTimeout
    /\ inflight.normal > 0

\* C2: from CLOSED, the failure that completes failure_threshold failures in a
\* row opens the breaker, and a call made before recovery_timeout has elapsed
\* raises CircuitBreakerOpen with the breaker's name and its fallback message.
C2_ThresholdOpens ==
    /\ [][(CallRaise /\ breaker._state = CLOSED /\ run + 1 >= FailureThreshold) =>
            (breaker'._state = OPEN /\ opened_at' = now)]_vars
    /\ [][(Calls /\ OpenFor) =>
            ev' = [kind |-> "CircuitBreakerOpen", value |-> "",
                   service_name |-> name, fallback_message |-> ExpectedFallback]]_vars

\* C2 witness: exactly failure_threshold failures in a row, nothing in flight,
\* and the next call was rejected before the timeout.
C2_Witness ==
    /\ ev.kind = "CircuitBreakerOpen"
    /\ ev.service_name = "test_service"
    /\ run = FailureThreshold
    /\ ncalls = FailureThreshold + 1
    /\ breaker._state = OPEN
    /\ now - opened_at < RecoveryTimeout
    /\ inflight = [normal |-> 0, probe |-> 0]

\* C3: in CLOSED a success resets the failure counter, so the counter is the
\* number of failures in a row, the breaker leaves CLOSED for OPEN only on the
\* failure that makes failure_threshold in a row, is_available holds meanwhile,
\* and a successful call returns the guarded function's result.
C3_FewerThanThresholdStaysClosed ==
    /\ [](breaker._state = CLOSED =>
            /\ breaker._failure_count = run
            /\ run < FailureThreshold
            /\ is_available(breaker, now))
    /\ [][(breaker._state = CLOSED /\ breaker'._state = OPEN) =>
            run' >= FailureThreshold]_vars
    /\ [][(CallReturn /\ breaker._state = CLOSED) =>
            (breaker'._failure_count = 0 /\ breaker'._state = CLOSED
             /\ ev'.value = "func_result")]_vars

\* C3 witness: more failures than the threshold were recorded overall, never
\* failure_threshold in a row, and the breaker is still CLOSED after a success.
C3_Witness ==
    /\ breaker._state = CLOSED
    /\ ev.kind = "returned"
    /\ breaker._failure_count = 0
    /\ breaker._half_open_calls = 0
    /\ opened_at = 0
    /\ now = 0
    /\ ncalls >= 2 * FailureThreshold - 1
    /\ inflight = [normal |-> 0, probe |-> 0]

\* C4: a read of the state made recovery_timeout or more after the breaker
\* opened finds it HALF_OPEN, whatever failures were recorded while it was OPEN.
C4_TimeoutFromOpening ==
    [][(ReadState /\ breaker._state = OPEN /\ now - opened_at >= RecoveryTimeout) =>
         breaker'._state = HALF_OPEN]_vars

\* C5: in one HALF_OPEN episode at most half_open_max_calls calls are admitted
\* to the guarded function; a further call of the episode is rejected with
\* CircuitBreakerOpen.
C5_HalfOpenAdmitsAtMostMax ==
    /\ [](breaker._state = HALF_OPEN => admitted <= HalfOpenMaxCalls)
    /\ [][(Calls /\ breaker._state = HALF_OPEN /\ admitted >= HalfOpenMaxCalls) =>
            (~Invokes /\ ev'.kind = "CircuitBreakerOpen")]_vars

\* C5 witness: half_open_max_calls calls were admitted in the episode and one
\* more was rejected.
C5_Witness ==
    /\ breaker._state = HALF_OPEN
    /\ admitted = HalfOpenMaxCalls
    /\ ev.kind = "CircuitBreakerOpen"

\* C6: a failure recorded in HALF_OPEN re-opens the breaker and restarts the
\* timer at that instant; until recovery_timeout has elapsed from it every call
\* is rejected.
C6_HalfOpenFailureReopens ==
    /\ [][(CallRaise /\ breaker._state = HALF_OPEN) =>
            (breaker'._state = OPEN /\ breaker'._last_failure_time = now
             /\ opened_at' = now)]_vars
    /\ [][(Calls /\ reopened_at >= 0 /\ now - reopened_at < RecoveryTimeout) =>
            (~Invokes /\ ev'.kind = "CircuitBreakerOpen")]_vars

\* C6 witness: a call was rejected in the last tick of the timeout restarted by
\* a HALF_OPEN failure.
C6_Witness ==
    /\ ev.kind = "CircuitBreakerOpen"
    /\ breaker._state = OPEN
    /\ reopened_at >= RecoveryTimeout
    /\ opened_at = reopened_at
    /\ now - reopened_at = RecoveryTimeout - 1

\* C7: the success that completes half_open_max_calls successes of a HALF_OPEN
\* episode closes the breaker with the failure counter at 0, and a CLOSED
\* breaker opens only on failure_threshold failures in a row recorded since.
C7_RecoveryCloses ==
    /\ [][(CallReturn /\ breaker._state = HALF_OPEN
           /\ hsucc + 1 >= HalfOpenMaxCalls) =>
            (breaker'._state = CLOSED /\ breaker'._failure_count = 0)]_vars
    /\ [][(breaker._state = CLOSED /\ breaker'._state = OPEN) =>
            (run' >= FailureThreshold /\ breaker'._failure_count = FailureThreshold)]_vars

\* C7 witness: the breaker closed out of HALF_OPEN after half_open_max_calls
\* successes (its _half_open_calls still stands at the episode's count) and was
\* opened again by exactly failure_threshold new failures in a row.
C7_Witness ==
    /\ breaker._state = OPEN
    /\ ev.kind = "raised"
    /\ breaker._half_open_calls = HalfOpenMaxCalls
    /\ breaker._failure_count = FailureThreshold
    /\ run = FailureThreshold
    /\ ncalls = 2 * FailureThreshold + HalfOpenMaxCalls

\* C8 as stated: in HALF_OPEN at most one probe is in flight at a time.
C8_SingleProbeInFlight ==
    breaker._state = HALF_OPEN => inflight.probe <= 1

\* C8 amended: in a HALF_OPEN episode a call is admitted as long as fewer than
\* half_open_max_calls were admitted before it, also while earlier probes are in
\* flight, so up to half_open_max_calls probes are in flight at once, never more.
C8_ProbesInFlightAtMostMax ==
    /\ [](breaker._state = HALF_OPEN => inflight.probe <= HalfOpenMaxCalls)
    /\ [][(Calls /\ breaker'._state = HALF_OPEN
           /\ (IF breaker._state = HALF_OPEN THEN admitted ELSE 0) < HalfOpenMaxCalls) =>
            (Invokes /\ inflight'.probe = inflight.probe + 1)]_vars

\* C8 witness: half_open_max_calls probes in flight at once.
C8_Witness ==
    /\ breaker._state = HALF_OPEN
    /\ inflight.probe = HalfOpenMaxCalls

\* C37: a HALF_OPEN breaker whose admitted calls have all ended can still admit
\* a call: with no call in flight it is CLOSED, OPEN, or HALF_OPEN with fewer
\* than half_open_max_calls calls counted.
C37_HalfOpenNotStuck ==
    (breaker._state = HALF_OPEN /\ inflight.normal = 0 /\ inflight.probe = 0)
        => breaker._half_open_calls < HalfOpenMaxCalls

\* C38: when a call that was admitted before the current HALF_OPEN episode
\* returns during the episode, the breaker stays HALF_OPEN with the same
\* success count.
C38_OnlyProbesCloseBreaker ==
    [][( /\ breaker._state = HALF_OPEN
         /\ ev'.kind = "returned"
         /\ inflight'.normal + inflight'.probe < inflight.normal + inflight.probe
         /\ \/ inflight.probe = 0
            \/ breaker'._state = HALF_OPEN /\ inflight'.normal < inflight.normal )
       => ( /\ breaker'._state = HALF_OPEN
            /\ breaker'._success_count = breaker._success_count )]_vars

\* ------------------------------------------------- audio sequencer: claims

\* C9: every segment play_sequence takes from the queue has a priority at least
\* as high as every segment left waiting in the queue at that moment.
C9_HighestPriorityFirst ==
    \A i \in 1..Len(played) : played[i].waiting <= played[i].priority

\* C9 witness: a segment was taken ahead of a lower-priority segment that had
\* been added before it and is still waiting.
C9_Witness ==
    /\ played # <<>>
    /\ \E i \in 1..Len(seq._queue) :
          /\ seq._queue[i].priority < played[Len(played)].priority
          /\ seq._queue[i].segment_id < played[Len(played)].segment_id

\* C10: segments of equal priority are taken for playback in the order in which
\* add_segment was called (segment ids are handed out in call order).
C10_EqualPriorityFifo ==
    \A i, j \in 1..Len(played) :
        (i < j /\ played[i].priority = played[j].priority) =>
            played[i].segment_id < played[j].segment_id

\* C11: once stop() has returned, no output_callback invocation begins until
\* play_sequence() is called again.
C11_NoOutputAfterStop ==
    [][(stopped /\ stopped') => \A p \in DOMAIN player : ~BeginsOutput(p)]_vars

\* C12: after a barge-in was handled while a segment was playing, no further
\* chunk of that segment is passed to output_callback.
C12_NoChunkOfCancelledSegment ==
    [][\A p \in DOMAIN player :
          BeginsOutput(p) => player'[p].audio.segment_id \notin cancelled']_vars

\* C13: for a session's sequencer at most one play_sequence loop is active, and
\* so at most one output_callback invocation is in progress, also when
\* process_turn is invoked during the playback of an earlier turn.
C13_SinglePacingLoop ==
    Cardinality({p \in DOMAIN player : player[p].pc # "idle"}) <= 1

\* C39: when play_sequence returns with no stop(), reset() or second
\* play_sequence, the queue is empty, is_playing is false, every segment given
\* to add_segment was taken exactly once, every chunk put out is the slice of
\* at most bytes_per_chunk bytes that starts where the previous chunk of its
\* segment ended (so chunks of different segments are not interleaved), and the
\* chunks of each segment run from its first byte to its last.
C39_EverySegmentDeliveredOnce ==
    [][(\E p \in Players : Returns(p)) =>
        ( /\ seq'._queue = <<>>
          /\ ~seq'._is_playing
          /\ Len(played') = Len(given')
          /\ \A id \in 0..(Len(given') - 1) :
                /\ Cardinality({i \in 1..Len(played') : played'[i].segment_id = id}) = 1
                /\ given'[id + 1] > 0 =>
                      /\ Cardinality({i \in 1..Len(delivered') :
                            /\ delivered'[i].segment_id = id
                            /\ delivered'[i].lo = 0}) = 1
                      /\ \E i \in 1..Len(delivered') :
                            /\ delivered'[i].segment_id = id
                            /\ delivered'[i].hi = given'[id + 1]
          /\ \A i \in 1..Len(delivered') :
                LET d == delivered'[i]
                    end == d.lo + _bytes_per_chunk
                    len == given'[d.segment_id + 1]
                IN  /\ d.lo < d.hi
                    /\ d.hi = IF end < len THEN end ELSE len
                    /\ \/ d.lo = 0
                       \/ /\ i > 1
                          /\ delivered'[i - 1].segment_id = d.segment_id
                          /\ delivered'[i - 1].hi = d.lo )]_vars

\* Playback has returned after putting out two segments of two chunks each.
C39_Witness ==
    /\ \A p \in Players : player[p].pc = "idle"
    /\ seq._queue = <<>>
    /\ Len(played) = Len(given)
    /\ Len(played) >= 2
    /\ Len(delivered) >= 4
    /\ \E i \in 1..Len(delivered) : delivered[i].hi - delivered[i].lo < _bytes_per_chunk

\* ------------------------------------------------------------- VAD: claims

\* The events returned for the first n chunks of the stream, SPEECH_START and
\* SPEECH_END only.
RECURSIVE Boundaries(_)
Boundaries(n) ==
    IF n = 0 THEN <<>>
    ELSE IF chunks[n].event \in {SPEECH_START, SPEECH_END}
         THEN Append(Boundaries(n - 1), chunks[n].event)
         ELSE Boundaries(n - 1)

\* The VAD was speaking when chunk i was fed: a SPEECH_START was returned
\* before it and no SPEECH_END since.
SpeakingBefore(i) ==
    \E j \in 1..(i - 1) :
        /\ chunks[j].event = SPEECH_START
        /\ \A k \in (j + 1)..(i - 1) : chunks[k].event # SPEECH_END

\* The samples of the run of contiguous silent chunks that ends with chunk i.
RECURSIVE SilentRun(_)
SilentRun(i) ==
    IF i = 0 \/ chunks[i].is_speech THEN 0
    ELSE chunks[i].chunk_samples + SilentRun(i - 1)

\* C14: over a stream of chunks SPEECH_START and SPEECH_END alternate, starting
\* with SPEECH_START, and silence that continues after a SPEECH_END yields
\* SILENCE.
C14_StartEndAlternate ==
    /\ LET b == Boundaries(Len(chunks))
       IN  \A i \in 1..Len(b) :
              b[i] = (IF i % 2 = 1 THEN SPEECH_START ELSE SPEECH_END)
    /\ \A i \in 2..Len(chunks) :
          (chunks[i - 1].event \in {SPEECH_END, SILENCE} /\ ~chunks[i].is_speech)
              => chunks[i].event = SILENCE

\* C14 witness: two utterances were delimited, and the silence that went on
\* after the first SPEECH_END was reported as SILENCE.
C14_Witness ==
    /\ Boundaries(Len(chunks)) = <<SPEECH_START, SPEECH_END, SPEECH_START, SPEECH_END>>
    /\ \E i \in 2..Len(chunks) :
          chunks[i - 1].event = SPEECH_END /\ chunks[i].event = SILENCE

\* C15: while speaking, a speech chunk and a silent chunk that leaves the
\* contiguous silence below min_silence_ms return SPEECH_CONTINUE, and the
\* silent chunk with which the contiguous silence reaches min_silence_ms
\* returns SPEECH_END.
C15_ShortSilenceAbsorbed ==
    \A i \in 1..Len(chunks) :
        SpeakingBefore(i) =>
            chunks[i].event =
                (IF ~chunks[i].is_speech /\ silence_reached(SilentRun(i))
                 THEN SPEECH_END ELSE SPEECH_CONTINUE)

\* C15 witness: within one utterance a silence shorter than min_silence_ms was
\* followed by speech, and a later silence of several chunks ended the
\* utterance on the chunk that reached min_silence_ms.
C15_Witness ==
    \E i, j \in 1..Len(chunks) :
        /\ i + 2 < j
        /\ SpeakingBefore(i) /\ ~chunks[i].is_speech /\ chunks[i + 1].is_speech
        /\ \A k \in i..(j - 1) : chunks[k].event = SPEECH_CONTINUE
        /\ ~chunks[j - 1].is_speech
        /\ chunks[j].event = SPEECH_END

\* ------------------------------------------------- pipeline and call: claims

IsAssistant(role) == role \in {"sara", "nexus", ASSISTANT}

\* The roles h never start with an assistant message and never hold two user
\* messages in a row.
WellOrdered(h) ==
    /\ h # <<>> => ~IsAssistant(h[1])
    /\ \A i \in 1..(Len(h) - 1) : ~(h[i] = USER /\ h[i + 1] = USER)

\* C16: the roles of a conversation history never start with an assistant
\* message and never hold two user messages in a row, whatever the greeting,
\* the turns and their failures.
C16_HistoryOrdering ==
    /\ WellOrdered(session.conversation_history)
    /\ WellOrdered(messages)

\* The text is empty or made of whitespace only.
IsBlank(text) == \A i \in 1..Len(text) : text[i] = " "

\* C17: when ASR returns empty or whitespace-only text the turn returns at
\* once: the history is unchanged, the coroutine never reaches the LLM or TTS
\* call, it has no delayed-filler task, the sequencer is untouched and
\* is_processing is false.
C17_EmptyTranscriptReleases ==
    [][\A t \in Turns, text \in Texts :
          (IsBlank(text) /\ AsrReturn(t, text)) =>
              /\ session'.conversation_history = session.conversation_history
              /\ ~session'.is_processing
              /\ turn'[t].pc = "idle" /\ turn'[t].filler = "none"
              /\ seq' = seq]_vars

\* C17 witness: in a conversation that already has messages, a turn returned on
\* an empty transcript.
C17_Witness ==
    /\ session.conversation_history # <<>>
    /\ \E t \in Turns : turn[t].outcome = "empty"
    /\ ~session.is_processing

\* C18: a turn whose ASR call fails adds nothing to the conversation history:
\* neither the start of the turn nor the failure of the call changes it, in
\* process_turn and in _process_speech.
C18_AsrFailureKeepsHistory ==
    [][/\ \A t \in Turns :
            (TurnStart(t) \/ AsrRaise(t)) =>
                session'.conversation_history = session.conversation_history
       /\ ProcessSpeech => messages' = messages]_vars

\* C18 witness: in conversations that already have messages, the ASR call of a
\* process_turn failed (an error return with no filler task created) and
\* _process_speech raised.
C18_Witness ==
    /\ session.conversation_history # <<>>
    /\ \E t \in Turns : turn[t].outcome = "error" /\ turn[t].filler = "none"
    /\ messages # <<>> /\ speech_failed

\* C19: in a turn whose LLM generation failed no assistant message is added to
\* the history.
C19_LlmFailureNoAssistant ==
    [][\A t \in Turns, audio \in TtsLens :
          (turn[t].llm_failed /\ TtsReturn(t, audio)) =>
              session'.conversation_history = session.conversation_history]_vars

\* C20: when synthesize fails for a segment, the text of that segment is still
\* appended to the history and the remaining segments of the response are
\* still synthesized.
C20_TtsFailureSkipsOneSegment ==
    [][\A t \in Turns :
          TtsRaise(t) =>
              /\ session'.conversation_history =
                    Append(session.conversation_history, Head(turn[t].segments))
              /\ Tail(turn[t].segments) # <<>> => turn'[t].pc = "tts"]_vars

\* C21: every turn in which ASR, LLM or TTS fails enqueues a pre-defined
\* fallback utterance in the session's sequencer at HIGH priority before the
\* turn is released: the step in which a turn ends with an error leaves a HIGH
\* segment in the queue that was added on the failure path.
C21_FailedTurnEnqueuesFallback ==
    [][\A t \in Turns :
          (turn[t].pc # "idle" /\ turn'[t].pc = "idle" /\ turn'[t].outcome = "error")
          => \E i \in 1..Len(seq'._queue) :
                /\ seq'._queue[i].priority = HIGH
                /\ seq'._queue[i].segment_id >= seq._total_segments]_vars

\* C22: across the turns of one session playback is not interleaved: no segment
\* of a later process_turn call is taken for playback before a segment of an
\* earlier call (no barge-in takes place here, so nothing is cancelled).
C22_NoInterleavingAcrossTurns ==
    \A i, j \in 1..Len(played) :
        i < j => owner[played[i].segment_id + 1] <= owner[played[j].segment_id + 1]

\* ------------------------------------------------------- telephony: claims

\* An outbound media frame is sent for call k in this step.
SendsFrame(k) ==
    \E c \in Conns :
        /\ conn[c].task = "running" /\ conn[c].call = k
        /\ conn'[conn[c].drains].queue < conn[conn[c].drains].queue

\* C23: on the live media path, once inbound audio made the VAD emit
\* SPEECH_START while outbound audio of the call was pending, no further
\* outbound frame of that audio is sent.
C23_SpeechStartStopsPlayback ==
    [][\A k \in CallIds : k \in barged => ~SendsFrame(k)]_vars

\* C24: a failure while processing one utterance does not terminate the call's
\* media receive loop: after the step in which _process_speech was called and
\* raised, the connection still receives frames.
C24_UtteranceFailureKeepsLoop ==
    [][\A c \in Conns :
          conn'[c].utterances > conn[c].utterances => conn'[c].pc = "open"]_vars

\* C25: once the call.hangup webhook of a call has been handled, the call has
\* no session in the active-session map and no further outbound media frame is
\* sent for it, even if audio was still queued.
C25_HangupEndsPlayback ==
    [][\A k \in CallIds :
          /\ k \in hungup' => call_service'._sessions[k] = 0
          /\ (k \in hungup /\ k \in hungup') => ~SendsFrame(k)]_vars

\* C26: when the media WebSocket of a call gets a stop frame, is closed or
\* errors, the call's session is removed from the active-session map, with no
\* call.hangup webhook needed.
C26_TransportCloseEndsSession ==
    [][\A c \in Conns :
          (conn[c].pc = "open" /\ conn'[c].pc = "closed")
          => call_service'._sessions[conn[c].call] = 0]_vars

\* C27: concurrent calls are isolated: the VAD event a call gets for a frame is
\* the event a VAD fed with that call's own frames alone returns for it.
C27_CallsIsolated ==
    \A k \in CallIds : heard[k].event = heard[k].own

\* C28: the number of simultaneously active call sessions never exceeds
\* max_concurrent_calls.
C28_SessionCap ==
    Cardinality({k \in CallIds : call_service._sessions[k] # 0}) <= MaxConcurrentCalls

\* The position of a CallState on ringing -> answered -> active -> ended.
Rank(st) ==
    CASE st = RINGING -> 0 [] st = ANSWERED -> 1 [] st = ACTIVE -> 2 [] st = ENDED -> 3

\* C29: a session's state only moves forward along ringing, answered, active,
\* ended: no session object goes back to an earlier state, the session a call
\* has in the map is not replaced by one in an earlier state, a session in the
\* map has not ended, and no session is put into the map by a media connection
\* (only by call.initiated).
C29_StateMovesForward ==
    [][/\ \A s \in 1..Len(call_service.objects) :
             Rank(call_service'.objects[s].state) >= Rank(call_service.objects[s].state)
       /\ \A k \in CallIds :
             LET s == call_service._sessions[k]
                 n == call_service'._sessions[k]
             IN  /\ (s # 0 /\ n # 0) =>
                       Rank(call_service'.objects[n].state) >= Rank(call_service.objects[s].state)
                 /\ n # 0 => call_service'.objects[n].state # ENDED
                 /\ (s = 0 /\ n # 0) => conn' = conn]_vars

\* C36: the utterance buffer of a call grows only in a step that handles a
\* chunk of the call for which the VAD reports speech in progress; when the
\* VAD reports the end of speech for a chunk of the call, the whole buffer is
\* handed to _process_speech and the buffer is empty after the step, although
\* the processing failed.
C36_BufferFollowsVad ==
    [][\A k \in CallIds :
          LET before == call_service._audio_buffers[k]
              after == call_service'._audio_buffers[k]
              chunk == /\ call_service._sessions[k] # 0
                       /\ \E c \in Conns : /\ conn[c].call = k
                                           /\ conn'[c].frames = conn[c].frames + 1
          IN  /\ (before >= 0 /\ after > before) => (chunk /\ vad'._is_speaking)
              /\ (chunk /\ heard'[k].event = SPEECH_END) =>
                    (heard'[k].speech = before /\ after = 0)]_vars

\* The end of an utterance has been handled for a call: its buffered speech
\* went to _process_speech, which raised, and the buffer is empty.
C36_Witness ==
    \E k \in CallIds, c \in Conns :
        /\ conn[c].call = k /\ conn[c].utterances > 0
        /\ heard[k].event = SPEECH_END
        /\ heard[k].speech > 0
        /\ call_service._audio_buffers[k] = 0

\* ------------------------------------------------------- event bus: claims

\* C30: when publish is through with the handlers of an event, every handler
\* that was subscribed to the event's type when publish was called has been
\* invoked with the event, whatever the other handlers did, and publish has
\* not raised on account of a handler.
C30_PublishIsolatesHandlers ==
    [][\A p \in Publishers :
          (pub[p].pc = "gather" /\ pub'[p].pc # "gather") =>
              /\ \A i \in 1..Len(pub[p].subscribed) :
                    pub'[p].invoked[pub[p].subscribed[i]] >= 1
              /\ pub'[p].outcome # "raised"]_vars

\* A publish has returned after one of the handlers raised, and both handlers
\* were invoked with its event.
C30_Witness ==
    \E p \in Publishers :
        /\ pub[p].pc = "idle"
        /\ pub[p].outcome = "returned"
        /\ "raised" \in pub[p].handled
        /\ \A h \in Handlers : pub[p].invoked[h] >= 1

\* C31: the event history never holds more than _max_history events, and it
\* holds exactly the most recently published events in the order of their
\* publish calls (events are numbered in that order).
C31_HistoryKeepsMostRecent ==
    LET history == bus._event_history
    IN  /\ Len(history) <= MaxHistory
        /\ Len(history) = IF nevents < MaxHistory THEN nevents ELSE MaxHistory
        /\ \A i \in 1..Len(history) : history[i] = nevents - Len(history) + i

\* More events than the history holds were published: the oldest was dropped.
C31_Witness ==
    /\ nevents > MaxHistory
    /\ Len(bus._event_history) = MaxHistory
    /\ bus._event_history[1] = nevents - MaxHistory + 1

\* C32: with publish calls of one event type running concurrently and
\* handlers that suspend, no handler is called twice with the same event, and
\* when a publish is through with its handlers every handler that was
\* subscribed when it was called has been called with its event once.
C32_EachEventOncePerHandler ==
    [][/\ \A h \in Handlers, e \in 1..MaxEvents : received'[h][e] <= 1
       /\ \A p \in Publishers :
             (pub[p].pc = "gather" /\ pub'[p].pc # "gather") =>
                 \A i \in 1..Len(pub[p].subscribed) :
                     received'[pub[p].subscribed[i]][pub[p].event] = 1]_vars

\* A publish called later has returned while a handler is still suspended with
\* the event of an earlier publish; the handler has been called with each of
\* the two events once.
C32_Witness ==
    \E p, q \in Publishers, h \in Handlers :
        /\ pub[p].pc = "gather"
        /\ \E i \in 1..Len(pub[p].tasks) :
              pub[p].tasks[i].handler = h /\ pub[p].tasks[i].st = "suspended"
        /\ pub[q].pc = "idle" /\ pub[q].outcome = "returned"
        /\ pub[q].event > pub[p].event
        /\ received[h][pub[p].event] = 1
        /\ received[h][pub[q].event] = 1

\* C33: when a publish returns from its broadcast it has not raised, every
\* client that was registered all through the broadcast has been sent the
\* event or has failed, and no client whose send failed is left in the client
\* list.
C33_BroadcastReachesClients ==
    [][\A p \in Publishers :
          (pub[p].pc = "send" /\ pub'[p].pc = "idle") =>
              /\ pub'[p].outcome # "raised"
              /\ pub'[p].listed \subseteq (pub'[p].sent \cup pub'[p].failed)
              /\ \A w \in pub'[p].failed : ~Contains(bus'._websocket_clients, w)]_vars

\* ---------------------------------------------------- delayed filler: claims

\* C34: in a turn at most one delayed filler is enqueued; one is enqueued only
\* at LOW priority, only once FILLER_DELAY_MS have elapsed since the task was
\* started and only while the LLM response has not been received; none is
\* enqueued in a turn whose response arrived before the delay was over; and
\* when the delay has passed without the response, the filler task has run
\* (it enqueues its filler if there is audio for the phrase).
C34_DelayedFillerOnlyWhenLate ==
    [][\A t \in Turns :
          /\ nfillers'[t] <= 1
          /\ (llm_at'[t] >= 0 /\ llm_at'[t] < FILLER_DELAY_MS) => nfillers'[t] = 0
          /\ nfillers'[t] > nfillers[t] =>
                /\ elapsed[t] >= FILLER_DELAY_MS
                /\ llm_at[t] = -1
                /\ \E i \in 1..Len(seq'._queue) :
                      /\ seq'._queue[i].segment_id = seq._total_segments
                      /\ seq'._queue[i].priority = LOW
          /\ ( /\ turn'[t].filler # "none"
               /\ elapsed'[t] > FILLER_DELAY_MS
               /\ llm_at'[t] = -1 \/ llm_at'[t] > FILLER_DELAY_MS )
             => turn'[t].filler = "done"]_vars

\* The response arrived after the delay and one delayed filler was enqueued
\* before it.
C34_Witness ==
    \E t \in Turns :
        /\ turn[t].pc = "tts"
        /\ llm_at[t] > FILLER_DELAY_MS
        /\ nfillers[t] = 1

\* C35: after a barge-in during the LLM or TTS call of a turn, the turn
\* enqueues none of its response segments and plays nothing.
C35_BargeInDiscardsResponse ==
    [][\A t \in Turns :
          barge_in[t] =>
              /\ turn[t].pc = "tts" => seq'._total_segments = seq._total_segments
              /\ turn[t].pc = "play" => played' = played]_vars

\* C40: no delayed filler of a turn is enqueued after process_turn has
\* returned or been aborted.
C40_FillerEndsWithTurn ==
    \A t \in Turns : late[t] = 0

====
